---- MODULE Spec2Model ----
(***************************************************************************)
(* A model of voirc: the embedded signaling server (src/src/irc_server.rs), *)
(* the signaling client's message handler and fragment reassembler         *)
(* (src/src/irc_client.rs), the event loop of the media session manager    *)
(* (src/src/gui.rs) and the topology planner (src/src/topology.rs).        *)
(*                                                                         *)
(* Each subsystem has its own specification over its own variables; the    *)
(* variables of the other subsystems stay at their initial values.         *)
(***************************************************************************)
EXTENDS Integers, Sequences, FiniteSets, TLC

None == "none"

\* A HashMap is a function whose DOMAIN is the set of keys present.
EmptyMap == [x \in {} |-> None]
MapPut(m, k, v) == [x \in (DOMAIN m) \cup {k} |-> IF x = k THEN v ELSE m[x]]
MapDel(m, k) == [x \in (DOMAIN m) \ {k} |-> m[x]]

Min(a, b) == IF a <= b THEN a ELSE b

(***************************************************************************)
(*                      PART 1: THE SIGNALING SERVER                       *)
(***************************************************************************)

VARIABLES
    clients,            \* ServerState.clients: addr -> Client
    channels,           \* ServerState.channels: name -> set of addrs
    nick_pubkeys,       \* ServerState.nick_pubkeys: nick -> pubkey
    pow_required_bits,  \* ServerState.pow_required_bits
    task,               \* per connection task: where it is inside handle_hello
    hello_ok,           \* history: the (nick, pubkey) each connected client's last accepted HELLO bound
    srv_out,            \* what the last step did: the command and the lines enqueued per client
    accepted,           \* connections that passed the accept loop's check, their task not yet registered
    next_addr           \* accept loop: the socket address the next accepted connection gets

accept_vars == <<accepted, next_addr>>
srv_vars == <<clients, channels, nick_pubkeys, pow_required_bits, task, hello_ok, srv_out,
              accept_vars>>

\* The IRC client handler (irc_client.rs HandlerContext) of one client.
\*   peer_pubkeys : nick -> pubkey bound locally (AppState)
\*   fragments    : "sender:id" -> FragmentBuffer
\*   peer_states  : nick -> PeerState (AppState.peer_states)
\*   message_log  : the signed log of the channel, sorted by timestamp
\*   now          : the clock, in seconds
\*   cli_out      : the message the handler ran on last, the events it sent
\*                  on event_tx and the lines it sent on tx
\*   wire         : the fragments a sender's send_webrtc_signal has put on
\*                  the wire, with sent_payload the payload it was given
\*   delivered    : the fragments handed to the handler so far, in order
\*   signals      : the payloads of the WebRtcSignal events sent so far
\*   expired      : a fragment buffer was dropped by the 60 s expiry
\*   disk_log     : the lines written to the channel's log file, oldest first
VARIABLES peer_pubkeys, fragments, peer_states, message_log, disk_log, now, cli_out,
          wire, sent_payload, delivered, signals, expired
cli_vars == <<peer_pubkeys, fragments, peer_states, message_log, disk_log, now, cli_out,
              wire, sent_payload, delivered, signals, expired>>

\* The GUI event loop and the two audio tasks (gui.rs): the node's own nick,
\* the role the loop was started with, AppState.our_role, whether the task
\* spawned to store that role has still to run, the loop's table of WebRTC
\* sessions, the reconnect counters, the relay address, the queue between the
\* mix task and the forward task, and what the last step sent.
VARIABLES nickname, loop_role, our_role, role_task, peers, reconnect_attempts,
          relay_addr, forward_q, loop_out
loop_vars == <<nickname, loop_role, our_role, role_task, peers, reconnect_attempts,
               relay_addr, forward_q, loop_out>>

\* Two clients and the server between them (irc_client.rs, irc_server.rs), per
\* connection:
\*   out_tx     : the lines the client has queued for the server (out_tx, the
\*                socket, the server's read loop), oldest first
\*   srv_tx     : the lines the server has queued for the client (Client.tx,
\*                the socket, the client's read loop), oldest first
\*   rv_pubkeys : the client's local table nick -> pubkey
\*   rv_events  : the IrcEvents the client's handler has sent, not yet taken
\*                by its event loop
\*   rv_frags   : the sequence numbers in the client's fragment buffer
\*   rv_peers   : the nicks the client's event loop holds a WebRtcPeer for
\*   rv_seen    : history: what the client has done with its peer's signals
VARIABLES out_tx, srv_tx, rv_pubkeys, rv_events, rv_frags, rv_peers, rv_seen
rv_vars == <<out_tx, srv_tx, rv_pubkeys, rv_events, rv_frags, rv_peers, rv_seen>>

\* Two connection tasks that each broadcast one PRIVMSG to a channel of two
\* other members (irc_server.rs process_command):
\*   bc_order : the order in which the channel's HashSet yields its members
\*   bc_sent  : per sender that holds the read lock, the members its for
\*              loop has sent to so far
\*   bc_rx    : per member, the lines on its Client.tx, oldest first
VARIABLES bc_order, bc_sent, bc_rx
bc_vars == <<bc_order, bc_sent, bc_rx>>

\* One client's media sessions and the tasks around its event loop
\* (webrtc_peer.rs, gui.rs):
\*   cb_pending     : the connection-state changes whose callback has been
\*                    started by the WebRTC stack and has not yet run
\*   reconnect_q    : the nicks on reconnect_rx, oldest first
\*   conn_failed_q  : the nicks on conn_failed_rx, oldest first
\*   left           : history: the nicks whose UserLeft the loop has processed
\*                    with no UserJoined since
VARIABLES cb_pending, reconnect_q, conn_failed_q, left

\* The event loop's commands (gui.rs): the channel the node is in, whether
\* the loop is still running, and what the last command handler did, in the
\* order in which it did it.
VARIABLES current_channel, running, cmd_out
cmd_vars == <<current_channel, running, cmd_out>>

\* One data channel of a media session (webrtc_peer.rs setup_dc_receive):
\* the transfer in flight (an Option: no element or one), the ReceivedFile
\* events sent so far, and, as
\* history, the frames that have arrived, oldest first.
VARIABLES in_flight, file_tx, dc_seen
dc_vars == <<in_flight, file_tx, dc_seen>>

\* The audio relay (relay.rs): for each connection the point its task
\* handle_relay_client has reached and the nick bytes of its handshake, the
\* relay's client map (address to nick), the frames on each client's channel
\* that its writer task has not yet taken, and the state of that writer task.
VARIABLES relay_phase, relay_hs, relay_clients, relay_rx, relay_wr
relay_vars == <<relay_phase, relay_hs, relay_clients, relay_rx, relay_wr>>

\* The read loop of a server connection (irc_server.rs handle_connection_io):
\* the connections whose read_line has returned an error, and how many lines
\* have been read.
VARIABLES read_err, lines_read
line_vars == <<read_err, lines_read>>

\* The proof of work (pow.rs), called as functions: the arguments of the
\* last call of leading_zero_bits and of mine_nick and what they returned.
VARIABLES lzb_call, mine_call
pow_vars == <<lzb_call, mine_call>>

\* The connection descriptor (magic_link.rs), called as functions: the
\* descriptors encoded and parsed back so far.
VARIABLES link_call
link_vars == <<link_call>>

\* The roles two clients that meet through the server hold of each other:
\* per connection, the client's peer records (AppState::peer_states).
VARIABLES rv_roles
role_vars == <<rv_roles>>

\* A room of nodes and one encoded frame of one node's microphone:
\*   mesh_phase : "setup" before the room is formed, "ready" when it is,
\*                "sent" once the microphone task has sent the frame
\*   mesh_role  : per node, AppState.our_role
\*   mesh_peers : per node, the nicks its peers table holds a session for
\*   mesh_relay : the nodes that hold a RelayConnection
\*   mesh_mix   : per node, the (nick) entries on mix_rx, the audio intake
\*   mesh_fwd   : per node, the (nick) entries on forward_rx
\*   intake     : per node, how many times the frame was sent into mix_tx
VARIABLES mesh_phase, mesh_role, mesh_peers, mesh_relay, mesh_mix, mesh_fwd, intake
mesh_vars == <<mesh_phase, mesh_role, mesh_peers, mesh_relay, mesh_mix, mesh_fwd, intake>>

ext_vars == <<line_vars, pow_vars, link_vars, role_vars, mesh_vars>>

life_vars == <<cb_pending, reconnect_q, conn_failed_q, left, cmd_vars, dc_vars,
               relay_vars, ext_vars>>

net_vars == <<rv_vars, bc_vars, life_vars>>

non_srv_vars == <<cli_vars, loop_vars, net_vars>>

\* Socket addresses that connect, the nicks and keys they present.
Addrs == {"a1", "a2"}
\* The socket addresses that connect to the audio relay.
RelayAddrs == {"r1", "r2", "r3"}
Nicks == {"bob", "eve"}
Keys == {"P1", "P2"}
Channels == {"#general"}

\* The signing keys each connecting party holds: it can sign a HELLO with these only.
KeysOf(a) == IF a = "a1" THEN {"P1"} ELSE Keys

\* The source address of a socket address (addr.ip()).
IpOf(a) == "10.0.0.1"

\* pow_bits the server may be started with, and the <bits> a VOIRC_POW_SET carries
\* (256 stands for any text that does not parse as u8).
StartBits == {0}
PowSetInputs == {0, 28, 29, 256}
MAX_POW_BITS == 28

\* leading_zero_bits(nick_hash(nick, pubkey_hex)): SHA-256 is a fixed function of
\* its input; these are the values the model gives it on the inputs it draws.
HashBits(nick, key) ==
    CASE nick = "bob" /\ key = "P1" -> 0
      [] nick = "bob" /\ key = "P2" -> 17
      [] nick = "eve" /\ key = "P1" -> 3
      [] OTHER -> 30

\* pow::check_difficulty
check_difficulty(nick, key, required_bits) ==
    IF required_bits = 0 THEN TRUE
    ELSE HashBits(nick, key) >= required_bits

\* A line enqueued on a client's outbound channel.
Msg(kind, a1, a2, n) == [kind |-> kind, a1 |-> a1, a2 |-> a2, n |-> n, names |-> {}]
NoSent == [a \in Addrs |-> << >>]
\* c.tx.send(line) for the client at addr, when it is in the clients map.
SendTo(cl, sent, a, m) ==
    IF a \in DOMAIN cl THEN [sent EXCEPT ![a] = Append(@, m)] ELSE sent
SendToEveryone(cl, sent, as, m) ==
    [a \in Addrs |-> IF a \in DOMAIN cl THEN Append(sent[a], m) ELSE sent[a]]
\* the same line to each client of a set (one send per member)
SendAll(cl, sent, as, m) ==
    [a \in Addrs |-> IF a \in as /\ a \in DOMAIN cl THEN Append(sent[a], m) ELSE sent[a]]

IdleTask == [pc |-> "idle", nick |-> None, key |-> None]
NoHello == [nick |-> None, key |-> None]
SrvOut(op, a, sent) ==
    [op |-> op, addr |-> a, nick |-> None, key |-> None, sig |-> None, done |-> TRUE, sent |-> sent]
HelloOut(a, nick, key, sig, done, sent) ==
    [op |-> "hello", addr |-> a, nick |-> nick, key |-> key, sig |-> sig, done |-> done, sent |-> sent]

SrvInit ==
    /\ clients = EmptyMap
    /\ channels = EmptyMap
    /\ nick_pubkeys = EmptyMap
    /\ pow_required_bits \in StartBits
    /\ task = [a \in Addrs |-> IdleTask]
    /\ hello_ok = [a \in Addrs |-> NoHello]
    /\ srv_out = SrvOut("init", None, NoSent)
    /\ accepted = {}
    /\ next_addr = 1

\* handle_connection_io, on entry: the new connection's record is inserted.
SrvConnect(a) ==
    /\ a \notin DOMAIN clients
    /\ clients' = MapPut(clients, a,
                         [nick |-> None, pubkey |-> None, authenticated |-> FALSE, ip |-> IpOf(a)])
    /\ srv_out' = SrvOut("connect", a, NoSent)
    /\ UNCHANGED <<channels, nick_pubkeys, pow_required_bits, task, hello_ok>>

Connect(a) ==
    /\ SrvConnect(a)
    /\ UNCHANGED <<accept_vars, non_srv_vars>>

\* ServerState::try_bind_nick_pubkey: [ok, map]
TryBindOverwrite(np, nick, key) ==
    [ok |-> TRUE, map |-> MapPut(np, nick, key)]
try_bind_nick_pubkey(np, nick, key) ==
    IF nick \in DOMAIN np /\ np[nick] # key
    THEN [ok |-> FALSE, map |-> np]
    ELSE [ok |-> TRUE, map |-> MapPut(np, nick, key)]

\* The cleanup's loop over the channels: members.remove(&addr) on each.
KeepInChannels(chs, a) == chs
remove_from_channels(chs, a) == [c \in DOMAIN chs |-> chs[c] \ {a}]

\* handle_connection_io, after the read loop ends: the cleanup under the write lock.
Disconnect(a) ==
    /\ a \in DOMAIN clients
    /\ task[a].pc = "idle"
    /\ LET client == clients[a]
           rest == MapDel(clients, a)
           joined == {c \in DOMAIN channels : a \in channels[c]}
           peers_to_notify == UNION {channels[c] \ {a} : c \in joined}
       IN  /\ clients' = rest
           /\ IF client.nick # None
              THEN /\ nick_pubkeys' = MapDel(nick_pubkeys, client.nick)
                   /\ channels' = remove_from_channels(channels, a)
                   /\ srv_out' = SrvOut("disconnect", a,
                          SendAll(rest, NoSent, peers_to_notify, Msg("QUIT", client.nick, None, 0)))
              ELSE /\ UNCHANGED <<nick_pubkeys, channels>>
                   /\ srv_out' = SrvOut("disconnect", a, NoSent)
    /\ hello_ok' = [hello_ok EXCEPT ![a] = NoHello]
    /\ UNCHANGED <<pow_required_bits, task>>
    /\ UNCHANGED <<accept_vars, non_srv_vars>>

\* process_command, "NICK"
SrvNick(a, new_nick) ==
    /\ a \in DOMAIN clients
    /\ task[a].pc = "idle"
    /\ IF new_nick \in DOMAIN nick_pubkeys /\ clients[a].pubkey # nick_pubkeys[new_nick]
       THEN /\ srv_out' = SrvOut("nick", a, SendTo(clients, NoSent, a, Msg("433", new_nick, None, 0)))
            /\ UNCHANGED clients
       ELSE /\ clients' = [clients EXCEPT ![a].nick = new_nick]
            /\ srv_out' = SrvOut("nick", a, NoSent)
    /\ UNCHANGED <<channels, nick_pubkeys, pow_required_bits, task, hello_ok>>

CmdNick(a, new_nick) ==
    /\ SrvNick(a, new_nick)
    /\ UNCHANGED <<accept_vars, non_srv_vars>>

\* process_command, "USER"
SrvUser(a) ==
    /\ a \in DOMAIN clients
    /\ task[a].pc = "idle"
    /\ LET n == clients[a].nick
           s1 == SendTo(clients, NoSent, a, Msg("001", n, None, 0))
           s2 == SendTo(clients, s1, a, Msg("422", n, None, 0))
           s3 == SendTo(clients, s2, a, Msg("NOTICE_POW_REQUIRED", n, None, pow_required_bits))
       IN  srv_out' = SrvOut("user", a, IF n # None THEN s3 ELSE NoSent)
    /\ UNCHANGED <<clients, channels, nick_pubkeys, pow_required_bits, task, hello_ok>>

CmdUser(a) ==
    /\ SrvUser(a)
    /\ UNCHANGED <<accept_vars, non_srv_vars>>

\* process_command, "PRIVMSG" that is not a VOIRC_HELLO or VOIRC_POW_SET to the
\* pseudo-client.  A target that is a key of the channels map goes to the
\* members; any other target goes to the first client of the map's iteration
\* that has this nick, so to_addr is any of the clients with the nick.
PrivmsgTargets == Channels \cup Nicks

PrivmsgNeverDropped(a) == FALSE

PrivmsgDropped(a) ==
    /\ clients[a].nick # None
    /\ clients[a].nick \in DOMAIN nick_pubkeys
    /\ ~ clients[a].authenticated

Named(target) == {b \in DOMAIN clients : clients[b].nick = target}

SrvPrivmsg(a, target, to_addr) ==
    /\ a \in DOMAIN clients
    /\ task[a].pc = "idle"
    /\ to_addr \in (IF PrivmsgDropped(a) \/ target \in DOMAIN channels \/ Named(target) = {}
                    THEN {a} ELSE Named(target))
    /\ LET raw_msg == Msg("PRIVMSG", clients[a].nick, target, 0)
       IN  srv_out' = [SrvOut("privmsg", a,
               IF PrivmsgDropped(a) THEN NoSent
               ELSE IF target \in DOMAIN channels
               THEN SendAll(clients, NoSent, channels[target] \ {a}, raw_msg)
               ELSE IF Named(target) = {} THEN NoSent
               ELSE SendTo(clients, NoSent, to_addr, raw_msg)) EXCEPT !.nick = target]
    /\ UNCHANGED <<clients, channels, nick_pubkeys, pow_required_bits, task, hello_ok>>

CmdPrivmsg(a, target, to_addr) ==
    /\ SrvPrivmsg(a, target, to_addr)
    /\ UNCHANGED <<accept_vars, non_srv_vars>>

\* process_command, "JOIN".  The nick is read under a read lock and the membership
\* written under a later write lock; only this connection's own task changes its
\* nick, so the two steps are one here.
SrvJoin(a, channel) ==
    /\ a \in DOMAIN clients
    /\ task[a].pc = "idle"
    /\ LET n == clients[a].nick
           members == (IF channel \in DOMAIN channels THEN channels[channel] ELSE {}) \cup {a}
           names_list == {clients[m].nick : m \in {m \in members \cap DOMAIN clients : clients[m].nick # None}}
           s1 == SendAll(clients, NoSent, members, Msg("JOIN", n, channel, 0))
           s2 == SendTo(clients, s1, a, [Msg("353", n, channel, 0) EXCEPT !.names = names_list])
           s3 == SendTo(clients, s2, a, Msg("366", n, channel, 0))
       IN  IF n # None
           THEN /\ channels' = MapPut(channels, channel, members)
                /\ srv_out' = SrvOut("join", a, s3)
           ELSE /\ UNCHANGED channels
                /\ srv_out' = SrvOut("join", a, NoSent)
    /\ UNCHANGED <<clients, nick_pubkeys, pow_required_bits, task, hello_ok>>

CmdJoin(a, channel) ==
    /\ SrvJoin(a, channel)
    /\ UNCHANGED <<accept_vars, non_srv_vars>>

\* process_command, "PART"
CmdPart(a, channel) ==
    /\ a \in DOMAIN clients
    /\ task[a].pc = "idle"
    /\ LET n == clients[a].nick
       IN  IF n # None /\ channel \in DOMAIN channels
           THEN /\ srv_out' = SrvOut("part", a,
                       SendAll(clients, NoSent, channels[channel] \ {a}, Msg("PART", n, channel, 0)))
                /\ channels' = [channels EXCEPT ![channel] = @ \ {a}]
           ELSE /\ UNCHANGED channels
                /\ srv_out' = SrvOut("part", a, NoSent)
    /\ UNCHANGED <<clients, nick_pubkeys, pow_required_bits, task, hello_ok>>
    /\ UNCHANGED <<accept_vars, non_srv_vars>>

\* The KICK line: the kicker's mask, the channel and the target nick.
KickMsg(kicker_nick, channel, target_nick) ==
    [Msg("KICK", kicker_nick, channel, 0) EXCEPT !.names = {target_nick}]

\* process_command, "KICK", under one write lock.  An unauthenticated kicker
\* returns at once.  find_addr_by_nick gives the first client of the map's
\* iteration that has the nick, so target_addr is any of the clients with
\* the nick; when there is none nothing is sent and nothing removed.
SrvKick(a, channel, target_nick, target_addr) ==
    /\ a \in DOMAIN clients
    /\ task[a].pc = "idle"
    /\ target_addr \in (IF ~ clients[a].authenticated \/ Named(target_nick) = {}
                        THEN {a} ELSE Named(target_nick))
    /\ LET kicker_authed == clients[a].authenticated
           kick_msg == KickMsg(clients[a].nick, channel, target_nick)
       IN  IF kicker_authed /\ Named(target_nick) # {} /\ channel \in DOMAIN channels
           THEN /\ srv_out' = SrvOut("kick", a,
                       SendAll(clients, NoSent, channels[channel], kick_msg))
                /\ channels' = [channels EXCEPT ![channel] = @ \ {target_addr}]
           ELSE /\ srv_out' = SrvOut("kick", a, NoSent)
                /\ UNCHANGED channels
    /\ UNCHANGED <<clients, nick_pubkeys, pow_required_bits, task, hello_ok>>

CmdKick(a, channel, target_nick, target_addr) ==
    /\ SrvKick(a, channel, target_nick, target_addr)
    /\ UNCHANGED <<accept_vars, non_srv_vars>>

\* What the signature material of a VOIRC_HELLO can be: a valid Ed25519 signature
\* by pubkey_hex over the nick, a pubkey that does not decode to a key, a
\* signature that does not decode or does not verify, fewer than three fields.
HelloSigs == {"valid", "invalid_pubkey", "invalid_signature", "malformed"}

\* handle_hello up to the PoW check: the decoding and signature check (no shared
\* state), the staged-nick check (read lock) and the PoW check (a second read
\* lock).  The staged nick is written by this connection's own task only, so
\* checking it in the step of the PoW check is the same as checking it before.
\* The refusal and its notice are one step here, which is what happens when no
\* task asks for the write lock in between; HelloRead and HelloNotice below
\* take them apart.
SrvHelloCheck(a, hello_nick, pubkey_hex, sig) ==
    /\ a \in DOMAIN clients
    /\ task[a].pc = "idle"
    /\ LET fail(reason, n) ==
               /\ srv_out' = HelloOut(a, hello_nick, pubkey_hex, sig, TRUE,
                      SendTo(clients, NoSent, a, Msg("HELLO_FAILED", hello_nick, reason, n)))
               /\ UNCHANGED task
       IN  CASE sig = "malformed" ->
                  /\ srv_out' = HelloOut(a, hello_nick, pubkey_hex, sig, TRUE, NoSent)
                  /\ UNCHANGED task
             [] sig = "invalid_pubkey" -> fail("invalid_pubkey", 0)
             [] sig = "invalid_signature" -> fail("invalid_signature", 0)
             [] OTHER ->
                  IF clients[a].nick # hello_nick
                  THEN fail("nick_mismatch", 0)
                  ELSE IF ~ check_difficulty(hello_nick, pubkey_hex, pow_required_bits)
                  THEN fail("pow_too_weak", pow_required_bits)
                  ELSE /\ task' = [task EXCEPT ![a] = [pc |-> "hello_bind", nick |-> hello_nick, key |-> pubkey_hex]]
                       /\ srv_out' = HelloOut(a, hello_nick, pubkey_hex, sig, FALSE, NoSent)
    /\ UNCHANGED <<clients, channels, nick_pubkeys, pow_required_bits, hello_ok>>

HelloCheck(a, hello_nick, pubkey_hex, sig) ==
    /\ SrvHelloCheck(a, hello_nick, pubkey_hex, sig)
    /\ UNCHANGED <<accept_vars, non_srv_vars>>

\* handle_hello, the block under the write lock: bind, mark authenticated, broadcast.
SrvHelloBind(a) ==
    /\ a \in DOMAIN clients
    /\ task[a].pc = "hello_bind"
    /\ LET hello_nick == task[a].nick
           pubkey_hex == task[a].key
           bound == try_bind_nick_pubkey(nick_pubkeys, hello_nick, pubkey_hex)
           actual_bits == HashBits(hello_nick, pubkey_hex)
           joined == {c \in DOMAIN channels : a \in channels[c]}
           notified == (UNION {channels[c] : c \in joined}) \ {a}
           s1 == SendTo(clients, NoSent, a, Msg("HELLO_OK", hello_nick, None, actual_bits))
           s2 == SendAll(clients, s1, notified, Msg("VOIRC_PUBKEY", hello_nick, pubkey_hex, 0))
       IN  IF ~ bound.ok
           THEN /\ srv_out' = HelloOut(a, hello_nick, pubkey_hex, "valid", TRUE,
                       SendTo(clients, NoSent, a, Msg("433_key_mismatch", hello_nick, None, 0)))
                /\ UNCHANGED <<clients, nick_pubkeys, hello_ok>>
           ELSE /\ nick_pubkeys' = bound.map
                /\ clients' = [clients EXCEPT ![a].pubkey = pubkey_hex, ![a].authenticated = TRUE]
                /\ hello_ok' = [hello_ok EXCEPT ![a] = [nick |-> hello_nick, key |-> pubkey_hex]]
                /\ srv_out' = HelloOut(a, hello_nick, pubkey_hex, "valid", TRUE, s2)
    /\ task' = [task EXCEPT ![a] = IdleTask]
    /\ UNCHANGED <<channels, pow_required_bits>>

HelloBind(a) ==
    /\ SrvHelloBind(a)
    /\ UNCHANGED <<accept_vars, non_srv_vars>>

AnyU8(bits) == bits <= 255
\* handle_pow_set, the parse: a u8 that is at most 28.
ValidBits(bits) == bits <= 255 /\ bits <= MAX_POW_BITS

\* handle_pow_set.  The authenticated flag is read under a read lock and the
\* difficulty written under a later write lock; the flag is written by this
\* connection's own task only, so the two steps are one here.
PowSet(a, bits) ==
    /\ a \in DOMAIN clients
    /\ task[a].pc = "idle"
    /\ IF ~ ValidBits(bits)
       THEN /\ srv_out' = SrvOut("pow_set", a,
                   SendTo(clients, NoSent, a, Msg("VOIRC_POW_SET_FAILED", None, "invalid_bits", 0)))
            /\ UNCHANGED pow_required_bits
       ELSE IF ~ clients[a].authenticated
       THEN /\ srv_out' = SrvOut("pow_set", a, NoSent)
            /\ UNCHANGED pow_required_bits
       ELSE /\ pow_required_bits' = bits
            /\ srv_out' = SrvOut("pow_set", a,
                   SendAll(clients, NoSent, DOMAIN clients, Msg("VOIRC_POW_REQUIRED", None, None, bits)))
    /\ UNCHANGED <<clients, channels, nick_pubkeys, task, hello_ok>>
    /\ UNCHANGED <<accept_vars, non_srv_vars>>

(***************************************************************************)
(* handle_hello at the level of the state lock.  tokio's RwLock queues its *)
(* waiters first-in first-out: once a write() waits, a later read() waits  *)
(* behind it.  The staged-nick block and the PoW block of handle_hello     *)
(* call send_notice, which takes the read lock, while their own read guard *)
(* is still alive.                                                         *)
(***************************************************************************)

\* A handler holds a read guard and has still to call send_notice.
LockHeld == \E b \in Addrs : task[b].pc = "hello_notice"
\* A task waits in state.write().await.
WriterQueued == \E b \in Addrs : task[b].pc = "write_wait"

\* The staged-nick check or the PoW check of handle_hello fails.
HelloRefused(a, hello_nick, pubkey_hex) ==
    \/ clients[a].nick # hello_nick
    \/ ~ check_difficulty(hello_nick, pubkey_hex, pow_required_bits)

\* handle_hello, the read-locked block that finds the staged nick or the PoW
\* wrong, up to its call of send_notice: the guard s stays alive.
HelloRead(a, hello_nick, pubkey_hex) ==
    /\ a \in DOMAIN clients
    /\ task[a].pc = "idle"
    /\ ~ WriterQueued
    /\ HelloRefused(a, hello_nick, pubkey_hex)
    /\ task' = [task EXCEPT ![a] = [pc |-> "hello_notice", nick |-> hello_nick, key |-> pubkey_hex]]
    /\ srv_out' = HelloOut(a, hello_nick, pubkey_hex, "valid", FALSE, NoSent)
    /\ UNCHANGED <<clients, channels, nick_pubkeys, pow_required_bits, hello_ok>>
    /\ UNCHANGED <<accept_vars, non_srv_vars>>

\* send_notice called from that block gets the read lock, sends, and both
\* guards are dropped.  The staged nick and the difficulty are what the block
\* read: no writer ran while its guard was alive.
HelloNotice(a) ==
    /\ task[a].pc = "hello_notice"
    /\ ~ WriterQueued
    /\ LET hello_nick == task[a].nick
           reply == IF clients[a].nick # hello_nick
                    THEN Msg("HELLO_FAILED", hello_nick, "nick_mismatch", 0)
                    ELSE Msg("HELLO_FAILED", hello_nick, "pow_too_weak", pow_required_bits)
       IN  srv_out' = HelloOut(a, hello_nick, task[a].key, "valid", TRUE,
                               SendTo(clients, NoSent, a, reply))
    /\ task' = [task EXCEPT ![a] = IdleTask]
    /\ UNCHANGED <<clients, channels, nick_pubkeys, pow_required_bits, hello_ok>>
    /\ UNCHANGED <<accept_vars, non_srv_vars>>

\* A task calls state.write().await (the insert of a new connection, NICK,
\* the bind of a HELLO, the cleanup) while a read guard is alive: it waits.
WriteWait(a) ==
    /\ LockHeld
    /\ ~ WriterQueued
    /\ task[a].pc \in {"idle", "hello_bind"}
    /\ task' = [task EXCEPT ![a] = [pc |-> "write_wait", nick |-> None, key |-> None]]
    /\ srv_out' = SrvOut("write_wait", a, NoSent)
    /\ UNCHANGED <<clients, channels, nick_pubkeys, pow_required_bits, hello_ok>>
    /\ UNCHANGED <<accept_vars, non_srv_vars>>

\* The handlers that take the write lock run when no guard is alive and no
\* writer waits; those that take the read lock run when no writer waits.
LockConnect(a) == ~ LockHeld /\ ~ WriterQueued /\ task[a].pc = "idle" /\ Connect(a)
LockDisconnect(a) == ~ LockHeld /\ ~ WriterQueued /\ Disconnect(a)
LockNick(a, new_nick) == ~ LockHeld /\ ~ WriterQueued /\ CmdNick(a, new_nick)
LockHelloBind(a) == ~ LockHeld /\ ~ WriterQueued /\ HelloBind(a)
LockPowSet(a, bits) ==
    /\ ~ WriterQueued
    /\ a \in DOMAIN clients
    /\ (bits <= MAX_POW_BITS /\ clients[a].authenticated) => ~ LockHeld
    /\ PowSet(a, bits)
LockHelloCheck(a, hello_nick, pubkey_hex, sig) ==
    /\ ~ WriterQueued
    /\ a \in DOMAIN clients
    /\ sig = "valid" => ~ HelloRefused(a, hello_nick, pubkey_hex)
    /\ HelloCheck(a, hello_nick, pubkey_hex, sig)

(***************************************************************************)
(* The accept loop of run_inner and the registration of a connection by    *)
(* its spawned task.                                                       *)
(***************************************************************************)

MAX_CLIENTS_PER_IP == 5
MAX_TOTAL_CLIENTS == 100

\* The connections the listener hands out: socket addresses 1, 2, ... of one
\* source address.  Clients are alike for the limits, so the tasks register in
\* the order of their addresses, the client registered first is the one that
\* closes, and the address of a connection that was refused or whose
\* handshake failed goes to the next connection.
MaxAccepts == 102

\* ServerState::count_ip
count_ip(cl, ip) == Cardinality({a \in DOMAIN cl : cl[a].ip = ip})

Oldest(as) == CHOOSE a \in as : \A b \in as : a <= b
Newest(as) == CHOOSE a \in as : \A b \in as : a >= b

\* One turn of the accept loop: accept, the two limit checks under the read
\* lock, and the spawn of the connection's task.
Accept ==
    /\ next_addr <= MaxAccepts
    /\ IF Cardinality(DOMAIN clients) >= MAX_TOTAL_CLIENTS
       THEN /\ srv_out' = SrvOut("refused_total", next_addr, NoSent)
            /\ UNCHANGED <<accepted, next_addr>>
       ELSE IF count_ip(clients, IpOf(next_addr)) >= MAX_CLIENTS_PER_IP
       THEN /\ srv_out' = SrvOut("refused_ip", next_addr, NoSent)
            /\ UNCHANGED <<accepted, next_addr>>
       ELSE /\ srv_out' = SrvOut("accepted", next_addr, NoSent)
            /\ accepted' = accepted \cup {next_addr}
            /\ next_addr' = next_addr + 1
    /\ UNCHANGED <<clients, channels, nick_pubkeys, pow_required_bits, task, hello_ok>>
    /\ UNCHANGED non_srv_vars

\* The spawned task of the connection accepted first reaches
\* handle_connection_io and inserts its record under the write lock.
Register ==
    /\ accepted /= {}
    /\ LET a == Oldest(accepted)
       IN  /\ clients' = MapPut(clients, a, [nick |-> None, pubkey |-> None,
                                             authenticated |-> FALSE, ip |-> IpOf(a)])
           /\ accepted' = accepted \ {a}
           /\ srv_out' = SrvOut("connect", a, NoSent)
    /\ UNCHANGED <<channels, nick_pubkeys, pow_required_bits, task, hello_ok, next_addr>>
    /\ UNCHANGED non_srv_vars

\* The TLS handshake of the connection accepted last fails: its task returns
\* without registering.
HandshakeFailed ==
    /\ accepted /= {}
    /\ accepted' = accepted \ {Newest(accepted)}
    /\ next_addr' = Newest(accepted)
    /\ srv_out' = SrvOut("tls_failed", Newest(accepted), NoSent)
    /\ UNCHANGED <<clients, channels, nick_pubkeys, pow_required_bits, task, hello_ok>>
    /\ UNCHANGED non_srv_vars

\* The connection registered first is closed by its client.
CloseOldest ==
    /\ DOMAIN clients /= {}
    /\ Disconnect(Oldest(DOMAIN clients))


(***************************************************************************)
(* The IRC client: irc_client.rs.  A Rust String is its UTF-8 bytes, so a  *)
(* text is a sequence of bytes here.                                       *)
(***************************************************************************)

\* The byte of an ASCII character.
Ord(c) ==
    CASE c = "+" -> 43 [] c = "/" -> 47 [] c = ":" -> 58
      [] c = "[" -> 91 [] c = "]" -> 93 [] c = "|" -> 124
      [] c = "0" -> 48 [] c = "1" -> 49 [] c = "2" -> 50 [] c = "3" -> 51
      [] c = "4" -> 52 [] c = "5" -> 53 [] c = "6" -> 54 [] c = "7" -> 55
      [] c = "8" -> 56 [] c = "9" -> 57
      [] c = "a" -> 97 [] c = "b" -> 98 [] c = "c" -> 99 [] c = "d" -> 100
      [] c = "e" -> 101 [] c = "f" -> 102 [] c = "x" -> 120
      [] c = "i" -> 105 [] c = "l" -> 108 [] c = "o" -> 111 [] c = "B" -> 66
      [] c = "{" -> 123 [] c = "}" -> 125
      [] c = "z" -> 122
      [] c = "F" -> 70 [] c = "I" -> 73 [] c = "L" -> 76 [] c = "E" -> 69
      [] c = "N" -> 78 [] c = "D" -> 68 [] c = "_" -> 95 [] c = " " -> 32
      [] c = "C" -> 67 [] c = "K" -> 75 [] c = "v" -> 118 [] c = "#" -> 35

\* A string literal, written as the sequence of its characters.
Str(cs) == [i \in 1..Len(cs) |-> Ord(cs[i])]

Rep(b, n) == [i \in 1..n |-> b]

\* U+FFFD REPLACEMENT CHARACTER in UTF-8.
REPLACEMENT == <<239, 191, 189>>

\* String::from_utf8_lossy for bytes below 0xE0 (code points below U+0800):
\* an ASCII byte and a two-byte sequence are kept, any other byte (a lead
\* byte cut from its continuation, a continuation byte with no lead) is
\* replaced by U+FFFD.  R is the set of the replaced bytes, offset(i) the
\* number of output bytes before those of input byte i.
from_utf8_lossy(b) ==
    LET n == Len(b)
        kept(i) == \/ b[i] < 128
                   \/ b[i] \in 194..223 /\ i < n /\ b[i + 1] \in 128..191
                   \/ b[i] \in 128..191 /\ i > 1 /\ b[i - 1] \in 194..223
        R == {i \in 1..n : ~ kept(i)}
        offset(i) == (i - 1) + 2 * Cardinality({j \in R : j < i})
    IN  [k \in 1..(n + 2 * Cardinality(R)) |->
            LET J == {j \in R : offset(j) < k /\ k <= offset(j) + 3}
            IN  IF J # {} THEN REPLACEMENT[k - offset(CHOOSE j \in J : TRUE)]
                ELSE b[k - 2 * Cardinality({j \in R : offset(j) + 3 < k})]]

\* usize formatted by {} (decimal).
RECURSIVE Dec(_)
Dec(n) == IF n < 10 THEN <<48 + n>> ELSE Dec(n \div 10) \o <<48 + (n % 10)>>

\* str::parse::<usize>: an optional '+', then one or more decimal digits.
RECURSIVE DigitsValue(_, _)
DigitsValue(s, acc) ==
    IF s = << >> THEN acc ELSE DigitsValue(Tail(s), 10 * acc + (Head(s) - 48))

ParseUsize(s) ==
    LET digits == IF s # << >> /\ s[1] = Ord("+") THEN Tail(s) ELSE s
        ok == digits # << >> /\ \A i \in 1..Len(digits) : digits[i] \in 48..57
    IN  [ok |-> ok, val |-> IF ok THEN DigitsValue(digits, 0) ELSE 0]

\* str::find(char): the 0-based index of the first occurrence, as [found, at].
Find(s, b) ==
    LET I == {i \in 1..Len(s) : s[i] = b}
    IN  IF I = {} THEN [found |-> FALSE, at |-> 0]
        ELSE [found |-> TRUE, at |-> (CHOOSE i \in I : \A j \in I : i <= j) - 1]

\* str::split(char): the pieces between the separators, one more than there
\* are separators.
Split(s, b) ==
    LET P == {i \in 1..Len(s) : s[i] = b}
        n == Cardinality(P)
        kth(k) == CHOOSE i \in P : Cardinality({j \in P : j < i}) = k - 1
        lo(k) == IF k = 1 THEN 0 ELSE kth(k - 1)
        hi(k) == IF k = n + 1 THEN Len(s) + 1 ELSE kth(k)
    IN  [k \in 1..(n + 1) |-> SubSeq(s, lo(k) + 1, hi(k) - 1)]

ChunkSize == 400

\* IrcClient::send_webrtc_signal: the texts of the PRIVMSGs it sends, in order.
\* msg_id is the first 8 characters of a fresh UUID.
send_webrtc_signal(payload, msg_id) ==
    LET chunk_size == ChunkSize
        total_len == Len(payload)
        total_chunks == (total_len + chunk_size - 1) \div chunk_size
        chunk(i) == SubSeq(payload, (i - 1) * chunk_size + 1, Min(i * chunk_size, total_len))
    IN  [i \in 1..total_chunks |->
            Str(<<"[">>) \o Dec(i) \o Str(<<"/">>) \o Dec(total_chunks) \o Str(<<"|">>)
            \o msg_id \o Str(<<"]">>) \o from_utf8_lossy(chunk(i))]

\* The nick of a sender as text.
NickBytes(nick) ==
    CASE nick = "alice" -> Str(<<"a", "l", "i", "c", "e">>)
      [] nick = "bob" -> Str(<<"b", "o", "b">>)
      [] nick = "Bob" -> Str(<<"B", "o", "b">>)
      [] nick = "al" -> Str(<<"a", "l">>)
      [] nick = "aaa" -> Str(<<"a", "a", "a">>)
      [] nick = "zzz" -> Str(<<"z", "z", "z">>)
      [] nick = "eve" -> Str(<<"e", "v", "e">>)
      [] OTHER -> Str(<<"x">>)

\* handle_fragment, the parsing of the text after "WRTC:", in the order of the
\* code: end_bracket; header and payload; parts; counts, msg_id, seq, total.
\* bracketed and piped are the two tests that make handle_fragment return
\* early; seq_ok and total_ok say whether parse() succeeded (the values are
\* those after unwrap_or(0)).
HeaderCounts(bracketed, piped, counts, msg_id, payload) ==
    LET seq == ParseUsize(counts[1])
        total == IF Len(counts) >= 2 THEN ParseUsize(counts[2]) ELSE [ok |-> FALSE, val |-> 0]
    IN  [bracketed |-> bracketed, piped |-> piped,
         seq_ok |-> seq.ok, seq |-> seq.val,
         total_ok |-> total.ok, total |-> total.val,
         msg_id |-> msg_id, payload |-> payload]

HeaderParts(bracketed, parts, payload) ==
    HeaderCounts(bracketed, bracketed /\ Len(parts) = 2, Split(parts[1], Ord("/")),
                 IF Len(parts) >= 2 THEN parts[2] ELSE << >>, payload)

HeaderFields(content, end_bracket) ==
    LET bracketed == ~ (end_bracket = 0 \/ ~ (content # << >> /\ content[1] = Ord("[")))
    IN  HeaderParts(bracketed,
                    Split(IF bracketed THEN SubSeq(content, 2, end_bracket) ELSE << >>, Ord("|")),
                    IF bracketed THEN SubSeq(content, end_bracket + 2, Len(content)) ELSE << >>)

EndBracket(content) ==
    LET fb == Find(content, Ord("]")) IN IF fb.found THEN fb.at ELSE 0

FragHeader(content) == HeaderFields(content, EndBracket(content))

FragKey(sender, msg_id) == NickBytes(sender) \o Str(<<":">>) \o msg_id

\* The chunks 1..=total of a buffer that are present, concatenated in order.
RECURSIVE JoinParts(_, _, _)
JoinParts(parts, i, total) ==
    IF i > total THEN << >>
    ELSE (IF i \in DOMAIN parts THEN parts[i] ELSE << >>) \o JoinParts(parts, i + 1, total)

Event(ev, from, a1, a2, mark, bytes) ==
    [ev |-> ev, from |-> from, a1 |-> a1, a2 |-> a2, mark |-> mark, bytes |-> bytes]

\* handle_fragment from the lock on: the buffer entry, the insert, the
\* completion test.
StoreFragment(frs, sender, h, t) ==
    LET key == FragKey(sender, h.msg_id)
        entry0 == IF key \in DOMAIN frs THEN frs[key]
                  ELSE [parts |-> EmptyMap, total |-> h.total, last_update |-> t]
        entry == [entry0 EXCEPT !.parts = MapPut(@, h.seq, h.payload), !.last_update = t]
    IN  IF Cardinality(DOMAIN entry.parts) = entry.total
        THEN [fragments |-> MapDel(frs, key),
              events |-> <<Event("WebRtcSignal", sender, None, None, "",
                                 JoinParts(entry.parts, 1, entry.total))>>]
        ELSE [fragments |-> MapPut(frs, key, entry), events |-> << >>]

\* HandlerContext::handle_fragment: [fragments, events].
FragmentParsed(frs, sender, h, t) ==
    IF ~ h.bracketed \/ ~ h.piped
    THEN [fragments |-> frs, events |-> << >>]
    ELSE StoreFragment(frs, sender, h, t)

handle_fragment(frs, sender, content, t) == FragmentParsed(frs, sender, FragHeader(content), t)

\* Who sends PRIVMSGs to this client, and the keys they present.
Senders == {"alice", "bob"}
PeerKeys == {"K1", "K2"}
ChatChannel == "#general"

\* AppState::register_peer_pubkey: [ok, map].  The first key registered for a
\* nick stays; a different key later is a conflict.
register_peer_pubkey(pk, nick, key) ==
    IF nick \in DOMAIN pk /\ pk[nick] # key
    THEN [ok |-> FALSE, map |-> pk]
    ELSE [ok |-> TRUE, map |-> MapPut(pk, nick, key)]

\* AppState::pubkey_for_nick
pubkey_for_nick(pk, nick) == IF nick \in DOMAIN pk THEN pk[nick] ELSE None

\* AppState::trusted_keys_snapshot
trusted_keys_snapshot(pk) == pk

\* HandlerContext::is_verified
is_verified(pk, nick) == pubkey_for_nick(pk, nick) # None

\* Role::from_str
RoleStrs == {"host", "mod", "peer", "admin"}
RoleFromStr(s) == CASE s = "host" -> "Host" [] s = "mod" -> "Mod" [] OTHER -> "Peer"

\* AppState::set_peer_role
set_peer_role(ps, nick, role) ==
    IF nick \in DOMAIN ps
    THEN [ps EXCEPT ![nick].role = role]
    ELSE MapPut(ps, nick, [connected |-> FALSE, speaking |-> FALSE, role |-> role,
                           conn_state |-> "Connecting", conn_started |-> FALSE])

\* Signed messages on the wire.  sig says whether the signature verifies under
\* the message's own pubkey field.
SMsg(id, author, pubkey, sig, timestamp) ==
    [id |-> id, author |-> author, pubkey |-> pubkey, channel |-> ChatChannel,
     content |-> id, timestamp |-> timestamp, sig |-> sig]
M_ok == SMsg("m1", "alice", "K1", "valid", 10)
M_other_key == SMsg("m2", "alice", "K2", "valid", 20)
M_bad_sig == SMsg("m3", "bob", "K2", "invalid", 30)
M_future == SMsg("m4", "bob", "K2", "valid", 1000)
SignedMsgs == {M_ok, M_other_key, M_bad_sig, M_future}

TIMESTAMP_TOLERANCE_SECS == 120

\* SignedMessage::verify(None)
verify(msg, t) ==
    IF msg.sig # "valid" THEN "InvalidSignature"
    ELSE IF msg.timestamp > t + TIMESTAMP_TOLERANCE_SECS THEN "FutureTimestamp"
    ELSE "Ok"

is_suspicious(result) == result \in {"ChainMismatch", "FutureTimestamp"}

\* Vec::push then the stable sort_by_key(timestamp) of a sorted list.
RECURSIVE InsertSorted(_, _)
InsertSorted(list, msg) ==
    IF list = << >> THEN <<msg>>
    ELSE IF list[Len(list)].timestamp <= msg.timestamp THEN Append(list, msg)
    ELSE Append(InsertSorted(SubSeq(list, 1, Len(list) - 1), msg), list[Len(list)])

\* MessageLog::append: [ok, log, disk].  The line is written to the channel's
\* file first; a write error returns before the list is touched.
append(log, disk, msg, disk_ok) ==
    IF ~ disk_ok THEN [ok |-> FALSE, log |-> log, disk |-> disk]
    ELSE IF \E i \in 1..Len(log) : log[i].id = msg.id
    THEN [ok |-> TRUE, log |-> log, disk |-> Append(disk, msg)]
    ELSE [ok |-> TRUE, log |-> InsertSorted(log, msg), disk |-> Append(disk, msg)]

\* MessageLog::load_channel: the lines of the file, then the stable
\* sort_by_key(timestamp).
RECURSIVE load_channel(_)
load_channel(disk) ==
    IF disk = << >> THEN << >>
    ELSE InsertSorted(load_channel(SubSeq(disk, 1, Len(disk) - 1)), disk[Len(disk)])

\* The lines that the channel file may grow to.
MaxDiskLines == 2

\* MessageLog::messages_since
messages_since(log, since) == SelectSeq(log, LAMBDA m : m.timestamp > since)

\* process_sync_response: [log, disk] after the messages of the response, and
\* the two counts it returns.  A message whose append fails is counted in
\* neither.
RECURSIVE process_sync_response(_, _, _, _, _, _)
process_sync_response(log, disk, messages, trusted_keys, t, disk_ok) ==
    IF messages = << >>
    THEN [log |-> log, disk |-> disk, accepted |-> 0, rejected |-> 0]
    ELSE LET msg == Head(messages)
             mismatch == msg.author \in DOMAIN trusted_keys /\ trusted_keys[msg.author] # msg.pubkey
             result == verify(msg, t)
             r == append(log, disk, msg, disk_ok)
             refused == mismatch \/ result = "InvalidSignature"
             next == IF refused
                     THEN [log |-> log, disk |-> disk]
                     ELSE [log |-> r.log, disk |-> r.disk]
             rest == process_sync_response(next.log, next.disk, Tail(messages), trusted_keys,
                                           t, disk_ok)
         IN  [rest EXCEPT !.accepted = @ + (IF ~refused /\ r.ok THEN 1 ELSE 0),
                          !.rejected = @ + (IF refused THEN 1 ELSE 0)]

SyncResponses == {<<M_ok>>, <<M_other_key, M_bad_sig>>, <<M_future, M_ok>>}
SinceInputs == {0, 10}

FRAGMENT_TTL_SECS == 60

\* handle_message, the expiry of the fragment buffers that runs first.
Retain(frs, t) ==
    [k \in {k \in DOMAIN frs : t - frs[k].last_update < FRAGMENT_TTL_SECS} |-> frs[k]]

\* The id the sender's messages carry and the texts a sender can craft with it.
MsgId == Str(<<"d", "e", "a", "d", "b", "e", "e", "f">>)
Frag(seq, total, chunk) ==
    Str(<<"[">>) \o seq \o Str(<<"/">>) \o total \o Str(<<"|">>) \o MsgId \o Str(<<"]">>) \o chunk
Crafted ==
    << Str(<<"1", "/", "1", "|">>) \o MsgId \o Str(<<"]", "x">>),
       Str(<<"[", "1", "/", "1", "|">>) \o MsgId \o Str(<<"x">>),
       Str(<<"[", "1", "/", "1", "]", "x">>),
       Frag(Str(<<"x">>), Str(<<"1">>), Str(<<"x">>)),
       Frag(Str(<<"1">>), Str(<<"x">>), Str(<<"x">>)),
       Frag(Str(<<"0">>), Str(<<"1">>), Str(<<"x">>)),
       Frag(Str(<<"2">>), Str(<<"1">>), Str(<<"x">>)),
       Frag(Str(<<"1">>), Str(<<"0">>), Str(<<"x">>)),
       Frag(Str(<<"1">>), Str(<<"3">>), Str(<<"x">>)),
       Frag(Str(<<"1">>), Str(<<"2">>), Str(<<"a">>)),
       Frag(Str(<<"1">>), Str(<<"1">>), Str(<<"a">>)) >>

\* The payloads given to send_webrtc_signal: one byte, one chunk and one byte,
\* two chunks and one byte, and one with a two-byte character across the
\* boundary of the first chunk.
Payloads ==
    { Rep(Ord("a"), 1),
      Rep(Ord("a"), ChunkSize) \o Rep(Ord("b"), 1),
      Rep(Ord("a"), ChunkSize) \o Rep(Ord("b"), ChunkSize) \o Rep(Ord("c"), 1),
      Rep(Ord("a"), ChunkSize - 1) \o <<195, 169>> }

MaxDeliveries == 4
TickSecs == 60
MaxNow == 60

\* The text of delivery d: fragment d of the wire, or crafted text -d.
Content(d) == IF d > 0 THEN wire[d] ELSE Crafted[-d]

NoEvents == << >>
CliOut(op, from, d, events, sent) ==
    [op |-> op, from |-> from, d |-> d, events |-> events, sent |-> sent]

CliRest ==
    /\ fragments = EmptyMap
    /\ peer_states = EmptyMap
    /\ message_log = << >>
    /\ disk_log = << >>
    /\ now = 0
    /\ cli_out = CliOut("init", None, 0, NoEvents, << >>)
    /\ wire = << >>
    /\ sent_payload = << >>
    /\ delivered = << >>
    /\ signals = << >>
    /\ expired = FALSE

CliInit == peer_pubkeys = EmptyMap /\ CliRest

\* What every call of handle_message does: expire, then the handler's own
\* effect on the buffers (frs), its events and the lines it sends.
Handled(op, from, d, frs, events, sent) ==
    /\ fragments' = frs
    /\ expired' = (expired \/ Retain(fragments, now) # fragments)
    /\ cli_out' = CliOut(op, from, d, events, sent)

\* handle_privmsg, "VOIRC_PUBKEY:<nick>:<hex>"
RecvPubkey(nick, peer_nick, pubkey_hex) ==
    /\ peer_pubkeys' = register_peer_pubkey(peer_pubkeys, peer_nick, pubkey_hex).map
    /\ Handled("VOIRC_PUBKEY:", nick, 0, Retain(fragments, now), NoEvents, << >>)
    /\ UNCHANGED <<peer_states, message_log, disk_log, now, wire, sent_payload, delivered, signals>>
    /\ UNCHANGED <<srv_vars, loop_vars, net_vars>>

\* handle_privmsg, "VOIRC_HELLO:<nick>:<hex>:<sig>"
RecvHello(nick, hello_nick, pubkey_hex, sig) ==
    /\ peer_pubkeys' = IF sig = "valid"
                       THEN register_peer_pubkey(peer_pubkeys, hello_nick, pubkey_hex).map
                       ELSE peer_pubkeys
    /\ Handled("VOIRC_HELLO:", nick, 0, Retain(fragments, now), NoEvents, << >>)
    /\ UNCHANGED <<peer_states, message_log, disk_log, now, wire, sent_payload, delivered, signals>>
    /\ UNCHANGED <<srv_vars, loop_vars, net_vars>>

\* handle_privmsg, "WRTC:": delivery d from nick.
RecvWrtc(nick, d) ==
    /\ wire # << >> => Len(delivered) < MaxDeliveries
    /\ LET frs == Retain(fragments, now)
           r == IF is_verified(peer_pubkeys, nick)
                THEN handle_fragment(frs, nick, Content(d), now)
                ELSE [fragments |-> frs, events |-> NoEvents]
       IN  /\ Handled("WRTC:", nick, d, r.fragments, r.events, << >>)
           /\ delivered' = IF wire # << >> THEN Append(delivered, d) ELSE delivered
           /\ signals' = IF wire # << >> /\ r.events # NoEvents
                         THEN Append(signals, r.events[1].bytes) ELSE signals
    /\ UNCHANGED <<peer_pubkeys, peer_states, message_log, disk_log, now, wire, sent_payload>>
    /\ UNCHANGED <<srv_vars, loop_vars, net_vars>>

\* handle_privmsg, "VOIRC_ROLE:<role>"
RecvRole(nick, role_str) ==
    /\ IF is_verified(peer_pubkeys, nick)
       THEN peer_states' = set_peer_role(peer_states, nick, RoleFromStr(role_str))
       ELSE UNCHANGED peer_states
    /\ Handled("VOIRC_ROLE:", nick, 0, Retain(fragments, now), NoEvents, << >>)
    /\ UNCHANGED <<peer_pubkeys, message_log, disk_log, now, wire, sent_payload, delivered, signals>>
    /\ UNCHANGED <<srv_vars, loop_vars, net_vars>>

\* handle_privmsg, "VOIRC_MOD:<action>:<target>"; has_colon is whether the
\* text after the prefix holds a ':' for split_once.
ModActions == {"kick", "promote"}
RecvMod(nick, action, target_nick, has_colon) ==
    /\ Handled("VOIRC_MOD:", nick, 0, Retain(fragments, now),
               IF is_verified(peer_pubkeys, nick) /\ has_colon
               THEN <<Event("ModAction", nick, action, target_nick, "", << >>)>>
               ELSE NoEvents,
               << >>)
    /\ UNCHANGED <<peer_pubkeys, peer_states, message_log, disk_log, now, wire, sent_payload, delivered, signals>>
    /\ UNCHANGED <<srv_vars, loop_vars, net_vars>>

\* handle_privmsg, "VOIRC_SYNC_REQ:<json>"; json_ok is whether the JSON parses.
RecvSyncReq(nick, target, since, json_ok) ==
    /\ Handled("VOIRC_SYNC_REQ:", nick, 0, Retain(fragments, now), NoEvents,
               IF is_verified(peer_pubkeys, nick) /\ json_ok
               THEN <<[target |-> target, prefix |-> "VOIRC_SYNC_RESP:",
                       messages |-> messages_since(message_log, since)]>>
               ELSE << >>)
    /\ UNCHANGED <<peer_pubkeys, peer_states, message_log, disk_log, now, wire, sent_payload, delivered, signals>>
    /\ UNCHANGED <<srv_vars, loop_vars, net_vars>>

\* handle_privmsg, "VOIRC_SYNC_RESP:<json>"
RecvSyncResp(nick, messages, json_ok, disk_ok) ==
    /\ LET r == process_sync_response(message_log, disk_log, messages,
                                      trusted_keys_snapshot(peer_pubkeys), now, disk_ok)
       IN  IF is_verified(peer_pubkeys, nick) /\ json_ok
           THEN /\ Len(r.disk) <= MaxDiskLines
                /\ message_log' = r.log
                /\ disk_log' = r.disk
           ELSE UNCHANGED <<message_log, disk_log>>
    /\ Handled("VOIRC_SYNC_RESP:", nick, 0, Retain(fragments, now), NoEvents, << >>)
    /\ UNCHANGED <<peer_pubkeys, peer_states, now, wire, sent_payload, delivered, signals>>
    /\ UNCHANGED <<srv_vars, loop_vars, net_vars>>

\* handle_privmsg, "SIGNED:<json>"
RecvSigned(nick, target, msg, json_ok, disk_ok) ==
    /\ LET kp == pubkey_for_nick(peer_pubkeys, nick)
           result == verify(msg, now)
           r == append(message_log, disk_log, msg, disk_ok)
           dropped == \/ ~ json_ok
                      \/ kp # None /\ kp # msg.pubkey
                      \/ result = "InvalidSignature"
       IN  IF dropped
           THEN /\ UNCHANGED <<message_log, disk_log>>
                /\ Handled("SIGNED:", nick, 0, Retain(fragments, now), NoEvents, << >>)
           ELSE /\ Len(r.disk) <= MaxDiskLines
                /\ message_log' = r.log
                /\ disk_log' = r.disk
                /\ Handled("SIGNED:", nick, 0, Retain(fragments, now),
                           <<Event("ChatMessage", nick, target, msg.content,
                                   IF is_suspicious(result) THEN "[?] " ELSE "", << >>)>>,
                           << >>)
    /\ UNCHANGED <<peer_pubkeys, peer_states, now, wire, sent_payload, delivered, signals>>
    /\ UNCHANGED <<srv_vars, loop_vars, net_vars>>

\* handle_privmsg, a text with none of the prefixes.
RecvPlain(nick, target) ==
    /\ Handled("", nick, 0, Retain(fragments, now),
               <<Event("ChatMessage", nick, target, "hello", "", << >>)>>, << >>)
    /\ UNCHANGED <<peer_pubkeys, peer_states, message_log, disk_log, now, wire, sent_payload, delivered, signals>>
    /\ UNCHANGED <<srv_vars, loop_vars, net_vars>>

\* IrcClient::send_webrtc_signal, run by the sender: its PRIVMSGs are on the
\* wire to this client.
SendWebrtcSignal(payload) ==
    /\ wire = << >>
    /\ wire' = send_webrtc_signal(payload, MsgId)
    /\ sent_payload' = payload
    /\ UNCHANGED <<peer_pubkeys, fragments, peer_states, message_log, disk_log, now, cli_out,
                   delivered, signals, expired>>
    /\ UNCHANGED <<srv_vars, loop_vars, net_vars>>

FragSender == "alice"

\* Fragment i of the wire reaches the handler: the sender's line, or the same
\* line sent again.
MaxChunks == 3
DeliverFragment(i) ==
    /\ i <= Len(wire)
    /\ RecvWrtc(FragSender, i)

\* A text crafted by the sender with the id of its signal reaches the handler.
MalformedTexts == 1..9
DeliverCrafted(j) ==
    /\ wire # << >>
    /\ RecvWrtc(FragSender, -j)

\* Time passes.
Tick ==
    /\ now < MaxNow
    /\ now' = now + TickSecs
    /\ UNCHANGED <<peer_pubkeys, fragments, peer_states, message_log, disk_log, cli_out,
                   wire, sent_payload, delivered, signals, expired>>
    /\ UNCHANGED <<srv_vars, loop_vars, net_vars>>

\* ---------------------------------------------------------------------------
\* The GUI event loop, the topology decision and the audio forwarding tasks.
\* ---------------------------------------------------------------------------

\* config.rs, Role.
Roles == {"Host", "Mod", "Peer"}
is_superpeer(role) == role \in {"Host", "Mod"}
can_moderate(role) == role \in {"Host", "Mod"}

\* state.rs, the peer records.
update_peer_state(ps, nick, connected, speaking) ==
    LET existing == IF nick \in DOMAIN ps
                    THEN ps[nick]
                    ELSE [connected |-> FALSE, speaking |-> FALSE, role |-> "Peer",
                          conn_state |-> "Connecting", conn_started |-> FALSE]
    IN MapPut(ps, nick, [connected |-> connected, speaking |-> speaking,
                         role |-> existing.role,
                         conn_state |-> IF connected THEN "Connected" ELSE existing.conn_state,
                         conn_started |-> existing.conn_started])

set_peer_connecting(ps, nick) ==
    IF nick \in DOMAIN ps
    THEN [ps EXCEPT ![nick].conn_state = "Connecting", ![nick].conn_started = TRUE]
    ELSE MapPut(ps, nick, [connected |-> FALSE, speaking |-> FALSE, role |-> "Peer",
                           conn_state |-> "Connecting", conn_started |-> TRUE])

set_peer_conn_state(ps, nick, state) ==
    IF nick \in DOMAIN ps
    THEN [ps EXCEPT ![nick].conn_state = state,
                    ![nick].connected = IF state = "Connected" THEN TRUE ELSE @]
    ELSE ps

get_peer_role(ps, nick) == IF nick \in DOMAIN ps THEN ps[nick].role ELSE "Peer"

AllSuperpeersHostOnly(ps) == {n \in DOMAIN ps : ps[n].role = "Host"}

all_superpeers(ps) == {n \in DOMAIN ps : is_superpeer(ps[n].role)}

remove_peer(ps, nick) == MapDel(ps, nick)

\* topology.rs: the three early returns, then the fallback on all_superpeers.
should_connect_to(ps, role, target_role) ==
    IF is_superpeer(role) /\ is_superpeer(target_role) THEN TRUE
    ELSE IF ~is_superpeer(role) /\ is_superpeer(target_role) THEN TRUE
    ELSE IF is_superpeer(role) /\ ~is_superpeer(target_role) THEN TRUE
    ELSE IF all_superpeers(ps) = {} THEN TRUE
    ELSE FALSE

\* The order of Rust's str: byte by byte, a proper prefix before its extensions.
LexLess(s, t) ==
    \E i \in 1..(Min(Len(s), Len(t)) + 1) :
        /\ \A j \in 1..(i - 1) : s[j] = t[j]
        /\ \/ i > Len(s) /\ i <= Len(t)
           \/ i <= Len(s) /\ i <= Len(t) /\ s[i] < t[i]

StrLessAlways(a, b) == TRUE

StrLess(a, b) == LexLess(NickBytes(a), NickBytes(b))

\* Inputs of the loop.  The nicks are ordered "Bob" < "al" < "alice" < "bob".
OurNicks == {"al"}
Others == {"Bob", "alice"}
LoopNicks == OurNicks \cup Others
banned_users == {"bob"}
Packets == {"p1"}
MaxAttempts == 1
MaxQueue == 1

Signal(to, kind) == [to |-> to, kind |-> kind]

LoopOut(op, nick, why, sent, audio, queued, delay) ==
    [op |-> op, nick |-> nick, why |-> why, sent |-> sent, audio |-> audio,
     queued |-> queued, delay |-> delay]

\* What the loop leaves alone in the IRC handler's state.
handler_rest == <<peer_pubkeys, fragments, message_log, disk_log, now, cli_out, wire,
                  sent_payload, delivered, signals, expired>>

LoopInitWith(n, r, relay) ==
    /\ nickname = n
    /\ loop_role = r
    /\ our_role = "Peer"
    /\ role_task = TRUE
    /\ peers = {}
    /\ reconnect_attempts = EmptyMap
    /\ relay_addr = relay
    /\ forward_q = <<>>
    /\ loop_out = LoopOut("start", n, "-", <<>>, {}, FALSE, 0)

\* The task spawned next to the loop stores the start role in AppState.
SetOurRole ==
    /\ role_task
    /\ role_task' = FALSE
    /\ our_role' = loop_role
    /\ UNCHANGED <<nickname, loop_role, peers, reconnect_attempts, relay_addr, forward_q,
                   loop_out>>
    /\ UNCHANGED <<srv_vars, cli_vars, net_vars>>

\* maybe_create_peer: the topology test, the tiebreak, then the session and the
\* Offer when WebRtcPeer::new and create_offer both succeed (ok).
maybe_create_peer(ps, nick, own_nick, role, ok) ==
    IF ~should_connect_to(ps, role, get_peer_role(ps, nick))
    THEN [peer_states |-> ps, offer |-> FALSE, why |-> "topology"]
    ELSE IF ~StrLess(own_nick, nick)
    THEN [peer_states |-> ps, offer |-> FALSE, why |-> "tiebreak"]
    ELSE [peer_states |-> set_peer_connecting(ps, nick), offer |-> ok,
          why |-> IF ok THEN "offer" ELSE "failed"]

Created(r, nick, op) ==
    /\ peer_states' = r.peer_states
    /\ peers' = IF r.offer THEN peers \cup {nick} ELSE peers
    /\ loop_out' = LoopOut(op, nick, r.why,
                           IF r.offer THEN <<Signal(nick, "Offer")>> ELSE <<>>, {}, FALSE, 0)

LoopUserJoined(nick, role, ok) ==
    /\ IF nick \in banned_users
       THEN /\ loop_out' = LoopOut("UserJoined", nick, "banned", <<>>, {}, FALSE, 0)
            /\ UNCHANGED <<peer_states, peers, reconnect_attempts>>
       ELSE /\ Created(maybe_create_peer(
                           set_peer_role(update_peer_state(peer_states, nick, FALSE, FALSE),
                                         nick, role),
                           nick, nickname, loop_role, ok),
                       nick, "UserJoined")
            /\ reconnect_attempts' = MapDel(reconnect_attempts, nick)
    /\ UNCHANGED <<nickname, loop_role, our_role, role_task, relay_addr, forward_q>>

UserJoined(nick, role, ok) ==
    /\ LoopUserJoined(nick, role, ok)
    /\ UNCHANGED <<srv_vars, handler_rest, net_vars>>

LoopUserLeft(nick) ==
    /\ peers' = peers \ {nick}
    /\ peer_states' = remove_peer(peer_states, nick)
    /\ reconnect_attempts' = MapDel(reconnect_attempts, nick)
    /\ loop_out' = LoopOut("UserLeft", nick, "-", <<>>, {}, FALSE, 0)
    /\ UNCHANGED <<nickname, loop_role, our_role, role_task, relay_addr, forward_q>>

UserLeft(nick) ==
    /\ LoopUserLeft(nick)
    /\ UNCHANGED <<srv_vars, handler_rest, net_vars>>

LoopConnFailed(nick) ==
    /\ peer_states' = IF relay_addr /= None
                      THEN set_peer_conn_state(peer_states, nick, "Relayed")
                      ELSE peer_states
    /\ loop_out' = LoopOut("ConnFailed", nick, "-", <<>>, {}, FALSE, 0)
    /\ UNCHANGED <<nickname, loop_role, our_role, role_task, peers, reconnect_attempts,
                   relay_addr, forward_q>>

ConnFailed(nick) ==
    /\ LoopConnFailed(nick)
    /\ UNCHANGED <<srv_vars, handler_rest, net_vars>>

\* WebRtcPeer::new, the on_peer_connection_state_change callback of the
\* session with nick: Connected, Failed or Disconnected.
PeerConnStates == {"Connected", "Failed", "Disconnected"}

\* The body of the callback: what it does to the peer records.
on_peer_connection_state_change(ps, nick, s) ==
    CASE s = "Connected" ->
           set_peer_conn_state(update_peer_state(ps, nick, TRUE, FALSE), nick, "Connected")
      [] s = "Failed" ->
           set_peer_conn_state(update_peer_state(ps, nick, FALSE, FALSE), nick, "Failed")
      [] OTHER -> update_peer_state(ps, nick, FALSE, FALSE)

PeerConnState(nick, s) ==
    /\ nick \in peers
    /\ peer_states' = on_peer_connection_state_change(peer_states, nick, s)
    /\ loop_out' = LoopOut("PeerConnState", nick, s, <<>>, {}, FALSE, 0)
    /\ UNCHANGED <<nickname, loop_role, our_role, role_task, peers, reconnect_attempts,
                   relay_addr, forward_q>>
    /\ UNCHANGED <<srv_vars, handler_rest, net_vars>>

\* AppState::refresh_speaking: recent holds the nicks with audio in the last
\* 400 ms, late the nicks whose connection attempt started over 10 s ago.
refresh_speaking(ps, recent, late) ==
    [n \in DOMAIN ps |->
        [ps[n] EXCEPT !.speaking = n \in recent,
                      !.conn_state = IF @ = "Connecting" /\ ps[n].conn_started /\ n \in late
                                     THEN "NatIssue" ELSE @]]

\* The task the GUI spawns on every frame.
RefreshSpeaking(recent, late) ==
    /\ peer_states' = refresh_speaking(peer_states, recent, late)
    /\ loop_out' = LoopOut("refresh_speaking", None, "-", <<>>, {}, FALSE, 0)
    /\ UNCHANGED <<nickname, loop_role, our_role, role_task, peers, reconnect_attempts,
                   relay_addr, forward_q>>
    /\ UNCHANGED <<srv_vars, handler_rest, net_vars>>

\* The backoff before the attempt-th reconnect, in seconds:
\* min(2u64.pow(attempt), 30).  The power fits in 64 bits for attempt < 64;
\* an exponent above the cap stands as the cap here, since 2^n > n and only
\* the comparison with the cap reads the power.
RECURSIVE Pow2(_)
Pow2(n) == IF n = 0 THEN 1 ELSE 2 * Pow2(n - 1)
MaxBackoffSecs == 30
U64_BITS == 64

\* From attempt 64 on the power does not fit in a u64: a build with overflow
\* checks panics in pow, a build without them gets the wrapped power, 0.
PowOverflows(attempt) == attempt >= U64_BITS

Backoff(attempt) ==
    IF PowOverflows(attempt) THEN Min(0, MaxBackoffSecs)
    ELSE Min(Pow2(Min(attempt, MaxBackoffSecs)), MaxBackoffSecs)

ReconnectOffer(nick, delay, ok) ==
    IF StrLess(nickname, nick)
    THEN IF ~should_connect_to(peer_states, loop_role, get_peer_role(peer_states, nick))
         THEN /\ loop_out' = LoopOut("Reconnect", nick, "topology", <<>>, {}, FALSE, delay)
              /\ peers' = peers \ {nick}
              /\ UNCHANGED peer_states
         ELSE /\ peer_states' = set_peer_connecting(peer_states, nick)
              /\ peers' = IF ok THEN peers \cup {nick} ELSE peers \ {nick}
              /\ loop_out' = LoopOut("Reconnect", nick, IF ok THEN "offer" ELSE "failed",
                                     IF ok THEN <<Signal(nick, "Offer")>> ELSE <<>>, {},
                                     FALSE, delay)
    ELSE /\ loop_out' = LoopOut("Reconnect", nick, "tiebreak", <<>>, {}, FALSE, delay)
         /\ peers' = peers \ {nick}
         /\ UNCHANGED peer_states

\* The reconnect handler, for counters up to max.  A panic in pow ends the
\* handler, with the session removed and the counter stored.
ReconnectUpTo(nick, ok, max) ==
    /\ IF nick \notin DOMAIN peer_states
       THEN /\ peers' = peers \ {nick}
            /\ loop_out' = LoopOut("Reconnect", nick, "gone", <<>>, {}, FALSE, 0)
            /\ UNCHANGED <<peer_states, reconnect_attempts>>
       ELSE LET attempt == (IF nick \in DOMAIN reconnect_attempts
                            THEN reconnect_attempts[nick] ELSE 0) + 1
            IN /\ attempt <= max
               /\ reconnect_attempts' = MapPut(reconnect_attempts, nick, attempt)
               /\ \E overflow_checks \in BOOLEAN :
                     IF PowOverflows(attempt) /\ overflow_checks
                     THEN /\ peers' = peers \ {nick}
                          /\ loop_out' = LoopOut("Reconnect", nick, "panic", <<>>, {},
                                                 FALSE, 0)
                          /\ UNCHANGED peer_states
                     ELSE ReconnectOffer(nick, Backoff(attempt), ok)
    /\ UNCHANGED <<nickname, loop_role, our_role, role_task, relay_addr, forward_q>>

LoopReconnect(nick, ok) == ReconnectUpTo(nick, ok, MaxAttempts)

Reconnect(nick, ok) ==
    /\ LoopReconnect(nick, ok)
    /\ UNCHANGED <<srv_vars, handler_rest, net_vars>>

\* IrcEvent::WebRtcSignal: an Offer, an Answer, an IceCandidate, or a payload
\* that does not parse.
SignalKinds == {"Offer", "Answer", "IceCandidate", "garbage"}

LoopRecvSignal(from, kind, ok) ==
    /\ CASE kind = "Offer" ->
            IF ~should_connect_to(peer_states, loop_role, get_peer_role(peer_states, from))
            THEN /\ loop_out' = LoopOut("Signal", from, "topology", <<>>, {}, FALSE, 0)
                 /\ UNCHANGED <<peer_states, peers, reconnect_attempts>>
            ELSE /\ peer_states' = set_peer_connecting(peer_states, from)
                 /\ peers' = IF ok THEN peers \cup {from} ELSE peers
                 /\ reconnect_attempts' = IF ok THEN MapDel(reconnect_attempts, from)
                                          ELSE reconnect_attempts
                 /\ loop_out' = LoopOut("Signal", from, IF ok THEN "answer" ELSE "failed",
                                        IF ok THEN <<Signal(from, "Answer")>> ELSE <<>>, {},
                                        FALSE, 0)
         [] kind = "Answer" ->
            /\ reconnect_attempts' = IF from \in peers THEN MapDel(reconnect_attempts, from)
                                     ELSE reconnect_attempts
            /\ loop_out' = LoopOut("Signal", from, "Answer", <<>>, {}, FALSE, 0)
            /\ UNCHANGED <<peer_states, peers>>
         [] OTHER ->
            /\ loop_out' = LoopOut("Signal", from, kind, <<>>, {}, FALSE, 0)
            /\ UNCHANGED <<peer_states, peers, reconnect_attempts>>
    /\ UNCHANGED <<nickname, loop_role, our_role, role_task, relay_addr, forward_q>>

RecvSignal(from, kind, ok) ==
    /\ LoopRecvSignal(from, kind, ok)
    /\ UNCHANGED <<srv_vars, handler_rest, net_vars>>

\* IrcEvent::ModAction.
LoopModActions == {"kick", "promote", "demote"}
LoopRoleStrs == {"host", "peer"}

ModAction(from, action, target) ==
    /\ IF ~can_moderate(get_peer_role(peer_states, from))
       THEN /\ loop_out' = LoopOut("ModAction", from, "non-mod", <<>>, {}, FALSE, 0)
            /\ UNCHANGED <<peer_states, our_role>>
       ELSE /\ loop_out' = LoopOut("ModAction", from, action, <<>>, {}, FALSE, 0)
            /\ CASE action = "promote" ->
                    /\ peer_states' = set_peer_role(peer_states, target, "Mod")
                    /\ our_role' = IF target = nickname THEN "Mod" ELSE our_role
                 [] action = "demote" ->
                    /\ peer_states' = set_peer_role(peer_states, target, "Peer")
                    /\ our_role' = IF target = nickname THEN "Peer" ELSE our_role
                 [] OTHER -> UNCHANGED <<peer_states, our_role>>
    /\ UNCHANGED <<nickname, loop_role, role_task, peers, reconnect_attempts, relay_addr,
                   forward_q>>
    /\ UNCHANGED <<srv_vars, handler_rest, net_vars>>

\* The mix task: one (nick, packet) taken from mix_rx; it is handed to the
\* forward task when AppState.our_role is a superpeer role at that moment,
\* whether or not the packet decoded.  The mixer and last_audio are left out.
MixStep(nick, packet) ==
    /\ Len(forward_q) < MaxQueue
    /\ forward_q' = IF is_superpeer(our_role)
                    THEN Append(forward_q, [nick |-> nick, packet |-> packet])
                    ELSE forward_q
    /\ loop_out' = LoopOut("mix", nick, "-", <<>>, {}, is_superpeer(our_role), 0)
    /\ UNCHANGED <<nickname, loop_role, our_role, role_task, peers, reconnect_attempts,
                   relay_addr>>
    /\ UNCHANGED <<srv_vars, cli_vars, net_vars>>

ForwardAll(table, sender_nick) == table

\* The forward task: the sessions a packet of sender_nick is sent to.
ForwardTargets(table, sender_nick) == {nick \in table : nick /= sender_nick}

ForwardStep ==
    /\ forward_q /= <<>>
    /\ forward_q' = Tail(forward_q)
    /\ loop_out' = LoopOut("forward", Head(forward_q).nick, "-", <<>>,
                           ForwardTargets(peers, Head(forward_q).nick), FALSE, 0)
    /\ UNCHANGED <<nickname, loop_role, our_role, role_task, peers, reconnect_attempts,
                   relay_addr>>
    /\ UNCHANGED <<srv_vars, cli_vars, net_vars>>

(***************************************************************************)
(* Two clients that connect to one server and set up a WebRTC session      *)
(* through it: IrcClient::connect, the server's handlers, the clients'     *)
(* handlers and event loops.  Both clients hold an identity and have the   *)
(* role Peer.                                                              *)
(***************************************************************************)

\* The nick and the key of the client on each connection.
RvNick(a) == IF a = "a1" THEN "aaa" ELSE "zzz"
RvKey(a) == IF a = "a1" THEN "P1" ELSE "P2"

\* Fragments per signal (an SDP is longer than one 400-byte chunk).
RvChunks == 2

\* A line of a client for the server; n numbers the fragments of a signal.
Cmd(cmd, to, kind, n) == [cmd |-> cmd, to |-> to, kind |-> kind, n |-> n]
\* build_hello_message
HelloCmd == Cmd("HELLO", "voirc", None, 0)
\* send_webrtc_signal: one PRIVMSG <to> :WRTC:[i/total|id]chunk per chunk.
SignalCmds(to, kind) == [i \in 1..RvChunks |-> Cmd("WRTC", to, kind, i)]

\* IrcClient::connect: NICK and USER at once, VOIRC_HELLO after 200 ms, JOIN
\* after 500 ms.
ConnectCmds ==
    <<Cmd("NICK", None, None, 0), Cmd("USER", None, None, 0), HelloCmd,
      Cmd("JOIN", "#general", None, 0)>>

\* The server relays the text of a PRIVMSG as it came: the lines a handler
\* has enqueued, with the text of the command on the relayed ones.
Relayed(lines, c) ==
    [i \in 1..Len(lines) |->
        [kind |-> lines[i].kind, a1 |-> lines[i].a1, a2 |-> lines[i].a2, n |-> lines[i].n,
         names |-> lines[i].names,
         text |-> IF lines[i].kind = "PRIVMSG" THEN c.kind ELSE None,
         seq |-> IF lines[i].kind = "PRIVMSG" THEN c.n ELSE 0]]

RvRest == <<accept_vars, cli_vars, loop_vars, bc_vars, life_vars>>

\* The connection is accepted and registered; the client queues its first lines.
RvConnect(a) ==
    /\ SrvConnect(a)
    /\ out_tx[a] = << >>
    /\ out_tx' = [out_tx EXCEPT ![a] = ConnectCmds]
    /\ UNCHANGED <<srv_tx, rv_pubkeys, rv_events, rv_frags, rv_peers, rv_seen>>
    /\ UNCHANGED RvRest

\* handle_connection_io, the read loop: the next line of the connection goes
\* to process_command, and what it enqueues goes to the clients.
RvServe(a) ==
    /\ a \in DOMAIN clients
    /\ out_tx[a] /= << >>
    /\ task[a].pc = "idle"
    /\ LET c == Head(out_tx[a])
       IN  /\ CASE c.cmd = "NICK" -> SrvNick(a, RvNick(a))
                [] c.cmd = "USER" -> SrvUser(a)
                [] c.cmd = "HELLO" -> SrvHelloCheck(a, RvNick(a), RvKey(a), "valid")
                [] c.cmd = "JOIN" -> SrvJoin(a, c.to)
                [] c.cmd \in {"WRTC", "ROLE"} -> \E b \in Addrs : SrvPrivmsg(a, c.to, b)
           /\ srv_tx' = [b \in Addrs |-> srv_tx[b] \o Relayed(srv_out'.sent[b], c)]
    /\ out_tx' = [out_tx EXCEPT ![a] = Tail(@)]
    /\ UNCHANGED <<rv_pubkeys, rv_events, rv_frags, rv_peers, rv_seen>>
    /\ UNCHANGED RvRest

\* handle_hello, the write-locked block, for a HELLO that passed the checks.
RvBind(a) ==
    /\ SrvHelloBind(a)
    /\ srv_tx' = [b \in Addrs |-> srv_tx[b] \o Relayed(srv_out'.sent[b], HelloCmd)]
    /\ UNCHANGED <<out_tx, rv_pubkeys, rv_events, rv_frags, rv_peers, rv_seen>>
    /\ UNCHANGED RvRest

RECURSIVE SetToSeq(_)
SetToSeq(S) == IF S = {} THEN << >> ELSE LET x == CHOOSE x \in S : TRUE
                                         IN  <<x>> \o SetToSeq(S \ {x})

IrcEvent(kind, nick, signal) == [kind |-> kind, nick |-> nick, signal |-> signal]

\* HandlerContext::handle_message on the next line from the server: JOIN of
\* another nick (UserJoined, and the HELLO sent again), the names reply
\* (UserJoined per other name), VOIRC_PUBKEY (the key is registered), a WRTC
\* fragment (dropped from a nick without a registered key, else buffered and,
\* when the buffer is complete, sent on as WebRtcSignal); nothing for the rest.
RvHandleLine(a) ==
    /\ srv_tx[a] /= << >>
    /\ LET m == Head(srv_tx[a])
           own == RvNick(a)
           others == SetToSeq(m.names \ {own})
           verified == is_verified(rv_pubkeys[a], m.a1)
           parts == rv_frags[a] \cup {m.seq}
           complete == Cardinality(parts) = RvChunks
       IN  /\ out_tx' = IF m.kind = "JOIN" /\ m.a1 /= own
                        THEN [out_tx EXCEPT ![a] = Append(@, HelloCmd)]
                        ELSE out_tx
           /\ rv_events' =
                  IF m.kind = "JOIN" /\ m.a1 /= own
                  THEN [rv_events EXCEPT ![a] = Append(@, IrcEvent("UserJoined", m.a1, None))]
                  ELSE IF m.kind = "353"
                  THEN [rv_events EXCEPT ![a] =
                            @ \o [i \in 1..Len(others) |-> IrcEvent("UserJoined", others[i], None)]]
                  ELSE IF m.kind = "PRIVMSG" /\ verified /\ complete
                  THEN [rv_events EXCEPT ![a] = Append(@, IrcEvent("WebRtcSignal", m.a1, m.text))]
                  ELSE rv_events
           /\ rv_pubkeys' =
                  IF m.kind = "VOIRC_PUBKEY"
                  THEN [rv_pubkeys EXCEPT ![a] = register_peer_pubkey(@, m.a1, m.a2).map]
                  ELSE rv_pubkeys
           /\ rv_frags' =
                  IF m.kind = "PRIVMSG" /\ verified
                  THEN [rv_frags EXCEPT ![a] = IF complete THEN {} ELSE parts]
                  ELSE rv_frags
           /\ rv_seen' =
                  IF m.kind = "PRIVMSG" /\ ~ verified
                  THEN [rv_seen EXCEPT ![a] = @ \cup {"dropped"}]
                  ELSE IF m.kind = "PRIVMSG" /\ complete
                  THEN [rv_seen EXCEPT ![a] = @ \cup {m.text}]
                  ELSE rv_seen
    /\ srv_tx' = [srv_tx EXCEPT ![a] = Tail(@)]
    /\ UNCHANGED rv_peers

RvHandle(a) ==
    /\ RvHandleLine(a)
    /\ UNCHANGED <<srv_vars, cli_vars, loop_vars, bc_vars, life_vars>>

\* VoircApp::event_loop on the next IrcEvent: UserJoined (maybe_create_peer:
\* the offer, if ours is the lesser nick), WebRtcSignal with an Offer (the
\* peer is created and the answer sent) or with an Answer (handed to the
\* peer we hold for the sender).  The peer records hold the role Peer only.
RvLoop(a) ==
    /\ rv_events[a] /= << >>
    /\ LET e == Head(rv_events[a])
           ps == set_peer_role(update_peer_state(EmptyMap, e.nick, FALSE, FALSE), e.nick, "Peer")
           r == maybe_create_peer(ps, e.nick, RvNick(a), "Peer", TRUE)
           accepts == should_connect_to(ps, "Peer", get_peer_role(ps, e.nick))
       IN  CASE e.kind = "UserJoined" ->
                  /\ rv_peers' = IF r.offer THEN [rv_peers EXCEPT ![a] = @ \cup {e.nick}] ELSE rv_peers
                  /\ out_tx' = IF r.offer
                               THEN [out_tx EXCEPT ![a] = @ \o SignalCmds(e.nick, "Offer")]
                               ELSE out_tx
             [] e.kind = "WebRtcSignal" /\ e.signal = "Offer" ->
                  /\ rv_peers' = IF accepts THEN [rv_peers EXCEPT ![a] = @ \cup {e.nick}] ELSE rv_peers
                  /\ out_tx' = IF accepts
                               THEN [out_tx EXCEPT ![a] = @ \o SignalCmds(e.nick, "Answer")]
                               ELSE out_tx
             [] OTHER -> UNCHANGED <<rv_peers, out_tx>>
    /\ rv_events' = [rv_events EXCEPT ![a] = Tail(@)]
    /\ UNCHANGED <<srv_tx, rv_pubkeys, rv_frags, rv_seen>>
    /\ UNCHANGED <<srv_vars, cli_vars, loop_vars, bc_vars, life_vars>>

(***************************************************************************)
(* process_command, "PRIVMSG" to a channel, by two connection tasks at     *)
(* once.  The handler holds the read lock, which the two tasks share, and  *)
(* sends to one member after the other; the runtime runs the tasks on      *)
(* different threads.                                                      *)
(***************************************************************************)

\* The members of the channel; the first two each send one PRIVMSG to it.
BcMembers == {"c1", "c2", "c3", "c4"}
BcSenders == {"c1", "c2"}

\* The orders a HashSet of the members can yield them in.
BcOrders ==
    {f \in [1..Cardinality(BcMembers) -> BcMembers] :
        \A i, j \in DOMAIN f : i /= j => f[i] /= f[j]}

\* The members a sender's for loop has still to send to, and the next of them.
BcLeft(t) == {m \in BcMembers \ {t} : m \notin bc_sent[t]}
BcNextMember(t) ==
    bc_order[CHOOSE i \in DOMAIN bc_order :
                 /\ bc_order[i] \in BcLeft(t)
                 /\ \A j \in 1..(i - 1) : bc_order[j] \notin BcLeft(t)]

\* The task of t takes the read lock and formats raw_msg.
BcBegin(t) ==
    /\ t \notin DOMAIN bc_sent
    /\ bc_sent' = MapPut(bc_sent, t, {})
    /\ UNCHANGED <<bc_order, bc_rx>>
    /\ UNCHANGED <<srv_vars, cli_vars, loop_vars, rv_vars, life_vars>>

\* One turn of the for loop of t: c.tx.send(raw_msg.clone()) for the next
\* member that is not the sender.
BcSend(t) ==
    /\ t \in DOMAIN bc_sent
    /\ BcLeft(t) /= {}
    /\ LET m == BcNextMember(t)
       IN  /\ bc_rx' = [bc_rx EXCEPT ![m] = Append(@, t)]
           /\ bc_sent' = [bc_sent EXCEPT ![t] = @ \cup {m}]
    /\ UNCHANGED bc_order
    /\ UNCHANGED <<srv_vars, cli_vars, loop_vars, rv_vars, life_vars>>

\* The nodes of the room; the microphone whose frame is followed is Speaker's.
MeshNicks == {"m1", "m2", "m3"}
Speaker == "m1"

\* No client has connected: no line is in flight.
RvIdle ==
    /\ out_tx = [a \in Addrs |-> << >>]
    /\ srv_tx = [a \in Addrs |-> << >>]
    /\ rv_pubkeys = [a \in Addrs |-> EmptyMap]
    /\ rv_events = [a \in Addrs |-> << >>]
    /\ rv_frags = [a \in Addrs |-> {}]
    /\ rv_peers = [a \in Addrs |-> {}]
    /\ rv_seen = [a \in Addrs |-> {}]

\* No callback is in flight, rx queues are empty, nobody has left.
LifeIdle ==
    /\ cb_pending = {}
    /\ reconnect_q = << >>
    /\ conn_failed_q = << >>
    /\ left = {}
    /\ current_channel = "#general"
    /\ running = TRUE
    /\ cmd_out = [op |-> "start", effects |-> << >>]
    /\ in_flight = << >>
    /\ file_tx = << >>
    /\ dc_seen = << >>
    /\ relay_phase = [a \in RelayAddrs |-> "new"]
    /\ relay_hs = [a \in RelayAddrs |-> << >>]
    /\ relay_clients = EmptyMap
    /\ relay_rx = [a \in RelayAddrs |-> << >>]
    /\ relay_wr = [a \in RelayAddrs |-> "none"]
    /\ read_err = {}
    /\ lines_read = 0
    /\ lzb_call = << >>
    /\ mine_call = << >>
    /\ link_call = << >>
    /\ rv_roles = [a \in Addrs |-> EmptyMap]
    /\ mesh_phase = "setup"
    /\ mesh_role = [n \in MeshNicks |-> "Peer"]
    /\ mesh_peers = [n \in MeshNicks |-> {}]
    /\ mesh_relay = {}
    /\ mesh_mix = [n \in MeshNicks |-> << >>]
    /\ mesh_fwd = [n \in MeshNicks |-> << >>]
    /\ intake = [n \in MeshNicks |-> 0]

\* No line is in flight and no broadcast has begun.
NetInit ==
    /\ RvIdle
    /\ LifeIdle
    /\ bc_order = << >>
    /\ bc_sent = EmptyMap
    /\ bc_rx = EmptyMap

(***************************************************************************)
(* The life of a media session: the event loop's presence handlers, the    *)
(* connection-state callbacks that the WebRTC stack runs as tasks of their *)
(* own, and the two queues between those callbacks and the loop.           *)
(***************************************************************************)

MaxCallbacks == 2
MaxLifeQueue == 2

LifeRest == <<srv_vars, handler_rest, rv_vars, bc_vars, cmd_vars, dc_vars, relay_vars,
              ext_vars>>

LifeJoined(nick, role, ok) ==
    /\ LoopUserJoined(nick, role, ok)
    /\ left' = left \ {nick}
    /\ UNCHANGED <<cb_pending, reconnect_q, conn_failed_q>>
    /\ UNCHANGED LifeRest

\* UserLeft closes the session and removes the record; a callback that has
\* already been started holds its own Arc of the state and still runs.
LifeLeft(nick) ==
    /\ LoopUserLeft(nick)
    /\ left' = left \cup {nick}
    /\ UNCHANGED <<cb_pending, reconnect_q, conn_failed_q>>
    /\ UNCHANGED LifeRest

\* The stack reports a state change of the live session with nick and
\* starts the callback's future.
LifeStateChange(nick, s) ==
    /\ nick \in peers
    /\ Cardinality(cb_pending) < MaxCallbacks
    /\ cb_pending' = cb_pending \cup {<<nick, s>>}
    /\ UNCHANGED <<reconnect_q, conn_failed_q, left>>
    /\ UNCHANGED <<loop_vars, peer_states>>
    /\ UNCHANGED LifeRest

\* The callback's future runs: the record, then the signals, which the
\* dispatcher task passes on in order to conn_failed_rx and reconnect_rx.
LifeCallback(nick, s) ==
    /\ <<nick, s>> \in cb_pending
    /\ Len(reconnect_q) < MaxLifeQueue
    /\ Len(conn_failed_q) < MaxLifeQueue
    /\ cb_pending' = cb_pending \ {<<nick, s>>}
    /\ peer_states' = on_peer_connection_state_change(peer_states, nick, s)
    /\ conn_failed_q' = IF s = "Failed" THEN Append(conn_failed_q, nick) ELSE conn_failed_q
    /\ reconnect_q' = IF s \in {"Failed", "Disconnected"} THEN Append(reconnect_q, nick)
                      ELSE reconnect_q
    /\ loop_out' = LoopOut("PeerConnState", nick, s, <<>>, {}, FALSE, 0)
    /\ UNCHANGED <<nickname, loop_role, our_role, role_task, peers, reconnect_attempts,
                   relay_addr, forward_q, left>>
    /\ UNCHANGED LifeRest

\* The loop takes the oldest nick from conn_failed_rx.
LifeConnFailed ==
    /\ conn_failed_q /= << >>
    /\ LoopConnFailed(Head(conn_failed_q))
    /\ conn_failed_q' = Tail(conn_failed_q)
    /\ UNCHANGED <<cb_pending, reconnect_q, left>>
    /\ UNCHANGED LifeRest

\* The loop takes the oldest nick from reconnect_rx.
LifeReconnect(ok) ==
    /\ reconnect_q /= << >>
    /\ LoopReconnect(Head(reconnect_q), ok)
    /\ reconnect_q' = Tail(reconnect_q)
    /\ UNCHANGED <<cb_pending, conn_failed_q, left>>
    /\ UNCHANGED LifeRest

(***************************************************************************)
(* The reconnect counter over many attempts: presence, reconnects and the  *)
(* signals that reset the counter, until the loop task panics.             *)
(***************************************************************************)

MaxBackoffAttempts == 65

LoopAlive == loop_out.why /= "panic"

BackoffJoined(nick, ok) ==
    /\ LoopAlive
    /\ LoopUserJoined(nick, "Peer", ok)
    /\ UNCHANGED <<srv_vars, handler_rest, net_vars>>

BackoffReconnect(nick, ok) ==
    /\ LoopAlive
    /\ ReconnectUpTo(nick, ok, MaxBackoffAttempts)
    /\ UNCHANGED <<srv_vars, handler_rest, net_vars>>

BackoffSignal(from, kind, ok) ==
    /\ LoopAlive
    /\ LoopRecvSignal(from, kind, ok)
    /\ UNCHANGED <<srv_vars, handler_rest, net_vars>>

(***************************************************************************)
(* The commands of the GUI to the event loop: SwitchChannel and Shutdown,  *)
(* next to the handlers that create the media sessions.                    *)
(***************************************************************************)

CallChannels == {"#general", "#dev", "#music"}

CallRest == <<srv_vars, handler_rest, rv_vars, bc_vars, cb_pending, reconnect_q,
              conn_failed_q, left, dc_vars, relay_vars, ext_vars>>

\* What a handler did: a close() of each drained session, clear_peers, a
\* line handed to the client's outbound channel.
Closed(sessions) == [effect |-> "close", what |-> sessions]
ClearPeers == [effect |-> "clear_peers", what |-> {}]
SendRaw(line) == [effect |-> "send_raw", what |-> line]

JoinBeforePart(sessions, old_ch, new_ch, role) ==
    <<Closed(sessions), ClearPeers, SendRaw(<<"JOIN", new_ch>>), SendRaw(<<"PART", old_ch>>),
      SendRaw(<<"PRIVMSG", new_ch, "VOIRC_ROLE", role>>)>>

\* CallCommand::SwitchChannel, statement by statement.
SwitchEffects(sessions, old_ch, new_ch, role) ==
    <<Closed(sessions), ClearPeers, SendRaw(<<"PART", old_ch>>), SendRaw(<<"JOIN", new_ch>>),
      SendRaw(<<"PRIVMSG", new_ch, "VOIRC_ROLE", role>>)>>

SwitchChannel(new_ch) ==
    /\ running
    /\ peers' = {}
    /\ peer_states' = EmptyMap
    /\ current_channel' = new_ch
    /\ cmd_out' = [op |-> "SwitchChannel",
                   effects |-> SwitchEffects(peers, current_channel, new_ch, loop_role)]
    /\ loop_out' = LoopOut("SwitchChannel", None, "-", <<>>, {}, FALSE, 0)
    /\ UNCHANGED <<nickname, loop_role, our_role, role_task, reconnect_attempts, relay_addr,
                   forward_q, running>>
    /\ UNCHANGED CallRest

\* CallCommand::Shutdown: the loop breaks; nothing follows the loop.
Shutdown ==
    /\ running
    /\ running' = FALSE
    /\ cmd_out' = [op |-> "Shutdown", effects |-> << >>]
    /\ loop_out' = LoopOut("Shutdown", None, "-", <<>>, {}, FALSE, 0)
    /\ UNCHANGED <<nickname, loop_role, our_role, role_task, peers, reconnect_attempts,
                   relay_addr, forward_q, peer_states, current_channel>>
    /\ UNCHANGED CallRest

CallJoined(nick, ok) ==
    /\ running
    /\ LoopUserJoined(nick, "Peer", ok)
    /\ cmd_out' = [op |-> "UserJoined", effects |-> << >>]
    /\ UNCHANGED <<current_channel, running>>
    /\ UNCHANGED CallRest

CallSignal(from, kind, ok) ==
    /\ running
    /\ LoopRecvSignal(from, kind, ok)
    /\ cmd_out' = [op |-> "WebRtcSignal", effects |-> << >>]
    /\ UNCHANGED <<current_channel, running>>
    /\ UNCHANGED CallRest

(***************************************************************************)
(* File reception on the data channel of one media session.                *)
(***************************************************************************)

\* DataChannelMessage: is_string and the bytes.
TextFrame(cs) == [is_string |-> TRUE, data |-> Str(cs)]
BinaryFrame(bytes) == [is_string |-> FALSE, data |-> bytes]

FILE_PREFIX == Str(<<"F", "I", "L", "E", ":">>)
FILE_END == Str(<<"F", "I", "L", "E", "_", "E", "N", "D">>)

\* str::strip_prefix: [found, rest].
strip_prefix(text, prefix) ==
    IF Len(text) >= Len(prefix) /\ SubSeq(text, 1, Len(prefix)) = prefix
    THEN [found |-> TRUE, rest |-> SubSeq(text, Len(prefix) + 1, Len(text))]
    ELSE [found |-> FALSE, rest |-> << >>]

\* str::rsplit_once(char): the text before and after the last occurrence.
rsplit_once(text, b) ==
    LET I == {i \in 1..Len(text) : text[i] = b}
        last == CHOOSE i \in I : \A j \in I : j <= i
    IN  IF I = {} THEN [found |-> FALSE, before |-> << >>, after |-> << >>]
        ELSE [found |-> TRUE, before |-> SubSeq(text, 1, last - 1),
              after |-> SubSeq(text, last + 1, Len(text))]

\* str::trim, for the ASCII white space: tab, line feed, vertical tab, form
\* feed, carriage return, space.
WhiteSpace == {9, 10, 11, 12, 13, 32}
trim(text) ==
    LET I == {i \in 1..Len(text) : text[i] \notin WhiteSpace}
    IN  IF I = {} THEN << >>
        ELSE SubSeq(text, CHOOSE i \in I : \A j \in I : i <= j,
                    CHOOSE i \in I : \A j \in I : j <= i)

ReceivedFile(from, name, data) == [from |-> from, name |-> name, data |-> data]

prepend_slice(data, bytes) == bytes \o data

\* Vec::extend_from_slice
extend_from_slice(data, bytes) == data \o bytes

\* The on_message callback of setup_dc_receive for the session with nick:
\* [in_flight, sent], the transfer in flight afterwards and the events sent.
on_message(fl, nick, msg) ==
    IF msg.is_string
    THEN LET text == from_utf8_lossy(msg.data)
             header == strip_prefix(text, FILE_PREFIX)
             parts == rsplit_once(header.rest, Ord(":"))
         IN  IF header.found
             THEN IF parts.found
                  THEN [in_flight |-> <<[name |-> parts.before, data |-> << >>]>>,
                        sent |-> << >>]
                  ELSE [in_flight |-> fl, sent |-> << >>]
             ELSE IF trim(text) = FILE_END
                  THEN IF fl /= << >>
                       THEN [in_flight |-> << >>,
                             sent |-> <<ReceivedFile(nick, fl[1].name, fl[1].data)>>]
                       ELSE [in_flight |-> fl, sent |-> << >>]
                  ELSE [in_flight |-> fl, sent |-> << >>]
    ELSE IF fl /= << >>
         THEN [in_flight |-> <<[fl[1] EXCEPT !.data = extend_from_slice(@, msg.data)]>>,
               sent |-> << >>]
         ELSE [in_flight |-> fl, sent |-> << >>]

\* The frames that arrive: two headers (the name of the second holds a
\* colon), a FILE: text with no size, FILE_END with and without white space
\* around it, another text, and two binary frames.
DcFrames ==
    {TextFrame(<<"F", "I", "L", "E", ":", "a", ":", "2">>),
     TextFrame(<<"F", "I", "L", "E", ":", "a", ":", "b", ":", "1">>),
     TextFrame(<<"F", "I", "L", "E", ":", "x">>),
     TextFrame(<<"F", "I", "L", "E", "_", "E", "N", "D">>),
     TextFrame(<<" ", "F", "I", "L", "E", "_", "E", "N", "D">>),
     TextFrame(<<"o", "i">>),
     BinaryFrame(<<1>>), BinaryFrame(<<2, 3>>)}

MaxFrames == 5
DcPeer == "alice"

\* One frame arrives on the data channel; the callback of the frame before
\* it has returned.
DcMessage(msg) ==
    /\ Len(dc_seen) < MaxFrames
    /\ LET r == on_message(in_flight, DcPeer, msg)
       IN  /\ in_flight' = r.in_flight
           /\ file_tx' = file_tx \o r.sent
    /\ dc_seen' = Append(dc_seen, msg)
    /\ UNCHANGED <<srv_vars, cli_vars, loop_vars, rv_vars, bc_vars, cb_pending, reconnect_q,
                   conn_failed_q, left, cmd_vars, relay_vars, ext_vars>>

(***************************************************************************)
(* The audio relay: handle_relay_client, one task per connection, and the  *)
(* writer task that it spawns.  The tasks interleave at the acquisitions   *)
(* of the lock of the client map and at their socket reads and writes.     *)
(***************************************************************************)

MAX_NICK_LEN == 64
MAX_PAYLOAD_LEN == 4096

\* The nicks that a connection presents in its handshake: none (nick_len 0),
\* one ASCII byte, bytes that are not UTF-8, and 64 and 65 bytes.
RelayNicks == {<< >>, <<97>>, Rep(255, 22), Rep(97, MAX_NICK_LEN), Rep(97, MAX_NICK_LEN + 1)}

\* The frames a client sends: the u16 length and, where the relay reads
\* them, that many bytes.
RelayPayloads ==
    {[len |-> 0, bytes |-> << >>], [len |-> 1, bytes |-> <<7>>],
     [len |-> MAX_PAYLOAD_LEN, bytes |-> Rep(7, MAX_PAYLOAD_LEN)],
     [len |-> MAX_PAYLOAD_LEN + 1, bytes |-> << >>]}

MaxRelayQueue == 1

\* u16::to_be_bytes
to_be_bytes(n) == <<(n \div 256) % 256, n % 256>>

\* The relay frame: [nick_len][nick][payload_len][payload], nick_len being
\* nick.len() as u8.
relay_frame(nick, payload) ==
    <<Len(nick) % 256>> \o nick \o to_be_bytes(Len(payload)) \o payload

\* The handshake: [1 byte nick_len][nick bytes].  A length of 0 or above 64
\* returns before anything is registered; otherwise the client is inserted
\* under the write lock and its writer task spawned.
RelayHandshake(addr, nick_buf) ==
    /\ relay_phase[addr] = "new"
    /\ LET nick_len == Len(nick_buf)
       IN  IF nick_len = 0 \/ nick_len > MAX_NICK_LEN
           THEN /\ relay_phase' = [relay_phase EXCEPT ![addr] = "done"]
                /\ UNCHANGED <<relay_hs, relay_clients, relay_rx, relay_wr>>
           ELSE /\ relay_phase' = [relay_phase EXCEPT ![addr] = "reading"]
                /\ relay_hs' = [relay_hs EXCEPT ![addr] = nick_buf]
                /\ relay_clients' = MapPut(relay_clients, addr, from_utf8_lossy(nick_buf))
                /\ relay_wr' = [relay_wr EXCEPT ![addr] = "live"]
                /\ UNCHANGED relay_rx
    /\ UNCHANGED <<srv_vars, cli_vars, loop_vars, rv_vars, bc_vars, cb_pending, reconnect_q,
                   conn_failed_q, left, cmd_vars, dc_vars, ext_vars>>

\* UnboundedSender::send: the frame joins the channel unless the receiving
\* half has been dropped.
tx_send(rx, wr, c, frame) == IF wr[c] = "live" THEN Append(rx[c], frame) ELSE rx[c]

\* One round of the reader loop: a length of 0 or above 4096 leaves the
\* loop; otherwise the frame is built and, under the read lock, sent to
\* every client of the map but the one at addr.
RelayFrame(addr, p) ==
    /\ relay_phase[addr] = "reading"
    /\ \A c \in DOMAIN relay_clients : Len(relay_rx[c]) < MaxRelayQueue
    /\ IF p.len = 0 \/ p.len > MAX_PAYLOAD_LEN
       THEN /\ relay_phase' = [relay_phase EXCEPT ![addr] = "ended"]
            /\ UNCHANGED relay_rx
       ELSE /\ relay_rx' =
                [c \in DOMAIN relay_rx |->
                    IF c \in DOMAIN relay_clients /\ c /= addr
                    THEN tx_send(relay_rx, relay_wr, c,
                                 relay_frame(from_utf8_lossy(relay_hs[addr]), p.bytes))
                    ELSE relay_rx[c]]
            /\ UNCHANGED relay_phase
    /\ UNCHANGED <<relay_hs, relay_clients, relay_wr>>
    /\ UNCHANGED <<srv_vars, cli_vars, loop_vars, rv_vars, bc_vars, cb_pending, reconnect_q,
                   conn_failed_q, left, cmd_vars, dc_vars, ext_vars>>

\* A read of the socket fails (the peer has closed): the handshake returns
\* the error, the reader loop is left.
RelayReadErr(addr) ==
    /\ relay_phase[addr] \in {"new", "reading"}
    /\ relay_phase' = [relay_phase EXCEPT
                         ![addr] = IF @ = "new" THEN "done" ELSE "ended"]
    /\ UNCHANGED <<relay_hs, relay_clients, relay_rx, relay_wr>>
    /\ UNCHANGED <<srv_vars, cli_vars, loop_vars, rv_vars, bc_vars, cb_pending, reconnect_q,
                   conn_failed_q, left, cmd_vars, dc_vars, ext_vars>>

\* The cleanup after the loop: the client is removed under the write lock
\* and the writer task aborted, which drops its receiving half.
RelayCleanup(addr) ==
    /\ relay_phase[addr] = "ended"
    /\ relay_phase' = [relay_phase EXCEPT ![addr] = "done"]
    /\ relay_clients' = [c \in DOMAIN relay_clients \ {addr} |-> relay_clients[c]]
    /\ relay_wr' = [relay_wr EXCEPT ![addr] = "gone"]
    /\ relay_rx' = [relay_rx EXCEPT ![addr] = << >>]
    /\ relay_hs' = [relay_hs EXCEPT ![addr] = << >>]
    /\ UNCHANGED <<srv_vars, cli_vars, loop_vars, rv_vars, bc_vars, cb_pending, reconnect_q,
                   conn_failed_q, left, cmd_vars, dc_vars, ext_vars>>

\* The writer task takes the oldest frame of its channel and writes it to
\* the socket; when the write fails the task ends and drops the channel.
RelayWrite(addr, ok) ==
    /\ relay_wr[addr] = "live"
    /\ relay_rx[addr] /= << >>
    /\ IF ok
       THEN /\ relay_rx' = [relay_rx EXCEPT ![addr] = Tail(@)]
            /\ UNCHANGED relay_wr
       ELSE /\ relay_rx' = [relay_rx EXCEPT ![addr] = << >>]
            /\ relay_wr' = [relay_wr EXCEPT ![addr] = "gone"]
    /\ UNCHANGED <<relay_phase, relay_hs, relay_clients>>
    /\ UNCHANGED <<srv_vars, cli_vars, loop_vars, rv_vars, bc_vars, cb_pending, reconnect_q,
                   conn_failed_q, left, cmd_vars, dc_vars, ext_vars>>

(***************************************************************************)
(* The read loop of a server connection: read_line, the length limit, the  *)
(* trim, process_command.                                                  *)
(***************************************************************************)

MAX_MSG_LEN == 512

\* Everything that a step of the read loop leaves alone besides the server
\* state and line_vars.
LineRest == <<accept_vars, cli_vars, loop_vars, rv_vars, bc_vars, cb_pending, reconnect_q,
              conn_failed_q, left, cmd_vars, dc_vars, relay_vars, link_vars, role_vars, mesh_vars>>

\* The text of a NICK command.
NickCmd(n) == Str(<<"N", "I", "C", "K", " ">>) \o NickBytes(n)

\* A line of total bytes, CRLF included: text, spaces, CRLF.
Padded(text, total) == text \o Rep(32, total - Len(text) - 2) \o <<13, 10>>

\* The lines that arrive: NICK commands of 10, 512 and 513 bytes, an empty
\* line, and lines of 11 and 513 bytes that hold a byte 0xFF.
Lines ==
    {Padded(NickCmd("bob"), 10), Padded(NickCmd("eve"), MAX_MSG_LEN),
     Padded(NickCmd("bob"), MAX_MSG_LEN + 1), <<13, 10>>,
     Padded(NickCmd("eve") \o <<255>>, 11),
     Padded(NickCmd("eve") \o <<255>>, MAX_MSG_LEN + 1)}

MaxLines == 4

\* read_line appends to a String: bytes that are not UTF-8 are an error.
utf8_ok(bytes) == from_utf8_lossy(bytes) = bytes

\* One round of the read loop for the line that arrived.  An error of
\* read_line returns from handle_connection_io at the `?`, before the cleanup
\* below the loop.  A line above MAX_MSG_LEN is cleared.  The others are
\* trimmed and, unless empty, given to process_command.
RecvLine(a, line) ==
    /\ a \in DOMAIN clients
    /\ a \notin read_err
    /\ task[a].pc = "idle"
    /\ lines_read < MaxLines
    /\ lines_read' = lines_read + 1
    /\ LET trimmed == trim(line)
       IN  IF ~ utf8_ok(line)
           THEN /\ read_err' = read_err \cup {a}
                /\ UNCHANGED <<clients, channels, nick_pubkeys, pow_required_bits, task,
                               hello_ok, srv_out>>
           ELSE /\ UNCHANGED read_err
                /\ IF Len(line) > MAX_MSG_LEN \/ trimmed = << >>
                      \/ \A n \in Nicks : trimmed # NickCmd(n)
                   THEN UNCHANGED <<clients, channels, nick_pubkeys, pow_required_bits, task,
                                    hello_ok, srv_out>>
                   ELSE \E n \in Nicks : trimmed = NickCmd(n) /\ SrvNick(a, n)
    /\ UNCHANGED <<pow_vars, LineRest>>

\* A connection is accepted and registered while lines arrive on others.
LineConnect(a) ==
    /\ SrvConnect(a)
    /\ UNCHANGED <<line_vars, pow_vars, LineRest>>

\* The peer closes the socket: read_line returns 0 and the cleanup runs.
LineDisconnect(a) ==
    /\ a \notin read_err
    /\ Disconnect(a)

(***************************************************************************)
(* The proof of work: leading_zero_bits and mine_nick as functions.  A     *)
(* hash is a sequence of 32 bytes.  A u64 is written in three digits of    *)
(* base 2^16, the highest first, which holds every value below 2^48.       *)
(***************************************************************************)

HASH_LEN == 32
U8_MAX == 255
LIMB == Pow2(16)

PowRest == <<srv_vars, cli_vars, loop_vars, rv_vars, bc_vars, cb_pending, reconnect_q,
             conn_failed_q, left, cmd_vars, dc_vars, relay_vars, line_vars, link_vars,
             role_vars, mesh_vars>>

\* u8::leading_zeros of a byte that is not 0.
RECURSIVE leading_zeros(_)
leading_zeros(byte) == IF byte >= 128 THEN 0 ELSE 1 + leading_zeros(2 * byte)

\* The loop of leading_zero_bits from byte i on with the u8 count so far:
\* [panicked, count].  `count += 8` above 255 panics in a build with
\* overflow checks and wraps in a build without.
RECURSIVE lzb_loop(_, _, _, _)
lzb_loop(hash, i, count, overflow_checks) ==
    IF i > Len(hash) THEN [panicked |-> FALSE, count |-> count]
    ELSE IF hash[i] = 0
         THEN IF count + 8 > U8_MAX /\ overflow_checks
              THEN [panicked |-> TRUE, count |-> count]
              ELSE lzb_loop(hash, i + 1, (count + 8) % (U8_MAX + 1), overflow_checks)
         ELSE [panicked |-> FALSE, count |-> count + leading_zeros(hash[i])]

leading_zero_bits(hash, overflow_checks) == lzb_loop(hash, 1, 0, overflow_checks)

\* A hash of zeros zero bytes, then byte, then bytes 0xFF.
HashOf(zeros, byte) ==
    [i \in 1..HASH_LEN |-> IF i <= zeros THEN 0 ELSE IF i = zeros + 1 THEN byte ELSE 255]

\* The hashes that leading_zero_bits is called with.
LzbHashes ==
    {HashOf(z, b) : z \in 0..(HASH_LEN - 1), b \in {128, 64, 1, 255}}
        \cup {[i \in 1..HASH_LEN |-> 0],
              [i \in 1..HASH_LEN |-> IF i = 1 THEN 128 ELSE 0],
              [i \in 1..HASH_LEN |-> IF i = 2 THEN 128 ELSE 0]}

LzbCall(hash, overflow_checks) ==
    /\ lzb_call' = <<[hash |-> hash, overflow_checks |-> overflow_checks,
                     result |-> leading_zero_bits(hash, overflow_checks)]>>
    /\ UNCHANGED <<mine_call, PowRest>>

\* u64 values in base 2^16.
U64(a, b, c) == <<a, b, c>>
LtU64(x, y) ==
    \/ x[1] < y[1]
    \/ x[1] = y[1] /\ x[2] < y[2]
    \/ x[1] = y[1] /\ x[2] = y[2] /\ x[3] < y[3]
\* nonce + 1
IncU64(x) ==
    IF x[3] + 1 < LIMB THEN <<x[1], x[2], x[3] + 1>>
    ELSE IF x[2] + 1 < LIMB THEN <<x[1], x[2] + 1, 0>>
    ELSE <<x[1] + 1, 0, 0>>
\* nonce as u32: the low 32 bits.
as_u32(x) == <<0, x[2], x[3]>>

HexDigit(d) == IF d < 10 THEN 48 + d ELSE 87 + d
RECURSIVE Hex(_)
Hex(n) == IF n < 16 THEN <<HexDigit(n)>> ELSE Hex(n \div 16) \o <<HexDigit(n % 16)>>
Hex4(n) == Rep(48, 4 - Len(Hex(n))) \o Hex(n)
\* {:04x} of a u64
format_04x(x) ==
    IF x[1] > 0 THEN Hex(x[1]) \o Hex4(x[2]) \o Hex4(x[3])
    ELSE IF x[2] > 0 THEN Hex(x[2]) \o Hex4(x[3])
    ELSE Hex4(x[3])

\* format!("{}#{:04x}", base_name, nonce)
Candidate(base_name, nonce) == base_name \o Str(<<"#">>) \o format_04x(nonce)

\* The nonces whose candidates the hash is drawn for, in the order of the
\* loop: 0, 1, 2^16, 2^32 - 1, 2^32.  The candidates of the nonces between
\* them hash to NoZeroBits, and the loop passes them.
Nonces == <<U64(0, 0, 0), U64(0, 0, 1), U64(0, 1, 0), U64(0, LIMB - 1, LIMB - 1),
            U64(1, 0, 0)>>
NoZeroBits == HashOf(0, 128)
\* The hashes of the candidates: 0, 8 and 15 leading zero bits.
MineHashes == {NoZeroBits, HashOf(1, 128), HashOf(1, 1)}
MineBits == {0, 8, 9, 28}
MineMax == {U64(0, 0, 0), U64(0, 0, 1), U64(0, 1, 1), U64(1, 0, 0), U64(1, 0, 1)}
MineBase == NickBytes("alice")

\* nick_hash: SHA-256 of the nick and the key, a fixed function; sha gives
\* its values on the candidates of Nonces.
nick_hash(nick, sha) ==
    IF \E i \in 1..Len(Nonces) : nick = Candidate(MineBase, Nonces[i])
    THEN sha[CHOOSE i \in 1..Len(Nonces) : nick = Candidate(MineBase, Nonces[i])]
    ELSE NoZeroBits

\* pow::verify_nick, which is check_difficulty
verify_nick(nick, sha, required_bits) ==
    IF required_bits = 0 THEN TRUE
    ELSE leading_zero_bits(nick_hash(nick, sha), FALSE).count >= required_bits

MinedNick(nick, nonce, bits, attempts) ==
    [nick |-> nick, nonce |-> nonce, bits |-> bits, attempts |-> attempts]

\* The loop of mine_nick from the i-th of Nonces on: an Option, no element
\* or one.
RECURSIVE mine_loop(_, _, _, _, _)
mine_loop(base_name, sha, required_bits, max_attempts, i) ==
    IF i > Len(Nonces) \/ ~ LtU64(Nonces[i], max_attempts) THEN << >>
    ELSE LET nonce == Nonces[i]
             candidate == Candidate(base_name, nonce)
             bits == leading_zero_bits(nick_hash(candidate, sha), FALSE).count
         IN  IF bits >= required_bits
             THEN <<MinedNick(candidate, as_u32(nonce), bits, IncU64(nonce))>>
             ELSE mine_loop(base_name, sha, required_bits, max_attempts, i + 1)

mine_nick(base_name, sha, required_bits, max_attempts) ==
    IF required_bits = 0
    THEN <<MinedNick(base_name, U64(0, 0, 0), 0, U64(0, 0, 0))>>
    ELSE mine_loop(base_name, sha, required_bits, max_attempts, 1)

MaxMineCalls == 1

MineCall(sha, required_bits, max_attempts) ==
    /\ Len(mine_call) < MaxMineCalls
    /\ mine_call' = Append(mine_call,
                           [sha |-> sha, required_bits |-> required_bits,
                            max_attempts |-> max_attempts,
                            result |-> mine_nick(MineBase, sha, required_bits, max_attempts)])
    /\ UNCHANGED <<lzb_call, PowRest>>

(***************************************************************************)
(* The connection descriptor: to_magic_link and from_magic_link.  An       *)
(* Option is a sequence of no element or one.  The JSON text is the        *)
(* object it denotes, a function from the keys written to their values;    *)
(* base64 and the prefix are kept as the layers that they are.             *)
(***************************************************************************)

LinkRest == <<srv_vars, cli_vars, loop_vars, rv_vars, bc_vars, cb_pending, reconnect_q,
              conn_failed_q, left, cmd_vars, dc_vars, relay_vars, line_vars, pow_vars,
              role_vars, mesh_vars>>

ConnectionInfo(host, port, chs, cert_fingerprint, relay_port) ==
    [host |-> host, port |-> port, channels |-> chs,
     cert_fingerprint |-> cert_fingerprint, relay_port |-> relay_port]

\* serde_json::to_string of WireFormat: the two Options are skipped when
\* they are None.
WireFormat(info) ==
    [k \in {"host", "port", "channels"}
           \cup (IF info.cert_fingerprint = << >> THEN {} ELSE {"cert_fingerprint"})
           \cup (IF info.relay_port = << >> THEN {} ELSE {"relay_port"}) |->
        CASE k = "host" -> <<info.host>>
          [] k = "port" -> <<info.port>>
          [] k = "channels" -> info.channels
          [] k = "cert_fingerprint" -> info.cert_fingerprint
          [] k = "relay_port" -> info.relay_port]

\* to_magic_link: "voirc://" and the base64 of the JSON text.
to_magic_link(info) == [prefix |-> TRUE, base64 |-> WireFormat(info)]

\* serde_json::from_str into RawConnectionInfo: every field has
\* #[serde(default)].
RawConnectionInfo(json) ==
    [host |-> IF "host" \in DOMAIN json THEN json["host"][1] ELSE "",
     port |-> IF "port" \in DOMAIN json THEN json["port"][1] ELSE 0,
     channels |-> IF "channels" \in DOMAIN json THEN json["channels"] ELSE << >>,
     channel |-> IF "channel" \in DOMAIN json THEN json["channel"] ELSE << >>,
     cert_fingerprint |-> IF "cert_fingerprint" \in DOMAIN json
                          THEN json["cert_fingerprint"] ELSE << >>,
     relay_port |-> IF "relay_port" \in DOMAIN json THEN json["relay_port"] ELSE << >>]

\* The channels of from_magic_link: the list, else the legacy single
\* channel, else #general.
channels_or_default(raw) ==
    IF raw.channels # << >> THEN raw.channels
    ELSE IF raw.channel # << >> THEN raw.channel
    ELSE <<"#general">>

\* from_magic_link of a link with or without the prefix.
from_magic_link(link) ==
    LET raw == RawConnectionInfo(link.base64)
    IN  ConnectionInfo(raw.host, raw.port, channels_or_default(raw),
                       raw.cert_fingerprint, raw.relay_port)

\* The descriptors encoded.
LinkHosts == {"localhost", ""}
LinkPorts == {0, 6667}
LinkChannels == {<< >>, <<"#general">>, <<"#dev", "#general">>, <<"#general", "#dev">>}
LinkFingerprints == {<< >>, <<"ab12">>}
LinkRelayPorts == {<< >>, <<6668>>}

MaxLinkCalls == 1

\* A descriptor is encoded and the link, with its prefix or stripped of it,
\* parsed back.
LinkCall(info, with_prefix) ==
    /\ Len(link_call) < MaxLinkCalls
    /\ LET link == to_magic_link(info)
           input == [link EXCEPT !.prefix = with_prefix]
       IN  link_call' = Append(link_call,
                               [info |-> info, link |-> link, input |-> input,
                                parsed |-> from_magic_link(input)])
    /\ UNCHANGED LinkRest

vars == <<srv_vars, non_srv_vars>>

Init == SrvInit /\ CliInit /\ LoopInitWith("al", "Peer", None) /\ NetInit

\* Every connection task runs one handler at a time; the tasks interleave at
\* the lock acquisitions.
Next ==
    \/ \E a \in Addrs : Connect(a)
    \/ \E a \in Addrs : Disconnect(a)
    \/ \E a \in Addrs, n \in Nicks : CmdNick(a, n)
    \/ \E a \in Addrs : CmdUser(a)
    \/ \E a \in Addrs, c \in Channels : CmdJoin(a, c)
    \/ \E a \in Addrs, c \in Channels : CmdPart(a, c)
    \/ \E a \in Addrs, t \in PrivmsgTargets, b \in Addrs : CmdPrivmsg(a, t, b)
    \/ \E a \in Addrs, n \in Nicks, s \in HelloSigs : \E k \in KeysOf(a) : HelloCheck(a, n, k, s)
    \/ \E a \in Addrs : HelloBind(a)
    \/ \E a \in Addrs, b \in PowSetInputs : PowSet(a, b)

Spec == Init /\ [][Next]_vars

\* The handler of a client that nobody has sent a key to yet.
NextClient ==
    \/ \E nick \in Senders, n \in Senders, k \in PeerKeys : RecvPubkey(nick, n, k)
    \/ \E nick \in Senders, n \in Senders, k \in PeerKeys, s \in {"valid", "invalid"} :
           RecvHello(nick, n, k, s)
    \/ \E nick \in Senders, d \in {-10, -11} : RecvWrtc(nick, d)
    \/ \E nick \in Senders, r \in LoopRoleStrs : RecvRole(nick, r)
    \/ \E nick \in Senders, a \in ModActions, t \in Senders, c \in BOOLEAN : RecvMod(nick, a, t, c)
    \/ \E nick \in Senders, s \in SinceInputs, j \in BOOLEAN : RecvSyncReq(nick, ChatChannel, s, j)
    \/ \E nick \in Senders, m \in SyncResponses, j \in BOOLEAN, ok \in BOOLEAN :
           RecvSyncResp(nick, m, j, ok)
    \/ \E nick \in Senders, m \in SignedMsgs, j \in BOOLEAN, ok \in BOOLEAN :
           RecvSigned(nick, ChatChannel, m, j, ok)
    \/ \E nick \in Senders : RecvPlain(nick, ChatChannel)

SpecClient == Init /\ [][NextClient]_vars

\* The handler of a client that has registered alice's key, and alice sending
\* it one signal.
FragInit ==
    /\ SrvInit
    /\ peer_pubkeys = MapPut(EmptyMap, FragSender, "K1")
    /\ CliRest
    /\ LoopInitWith("al", "Peer", None)
    /\ NetInit

NextFrag ==
    \/ \E p \in Payloads : SendWebrtcSignal(p)
    \/ \E i \in 1..MaxChunks : DeliverFragment(i)
    \/ \E j \in MalformedTexts : DeliverCrafted(j)
    \/ Tick

SpecFrag == FragInit /\ [][NextFrag]_vars

\* The event loop of a node started as host or as peer, with the keys of the
\* other nicks registered, next to the IRC handler's role announcements.
LoopInit ==
    /\ SrvInit
    /\ peer_pubkeys = [n \in LoopNicks |-> "K1"]
    /\ CliRest
    /\ \E n \in OurNicks, r \in {"Host", "Peer"}, relay \in {None, "relay"} :
           LoopInitWith(n, r, relay)
    /\ NetInit

NextLoop ==
    \/ \E nick \in Others \cup banned_users, ok \in BOOLEAN :
           UserJoined(nick, "Peer", ok)
    \/ \E nick \in Others : UserLeft(nick)
    \/ \E nick \in Others : ConnFailed(nick)
    \/ \E nick \in Others, ok \in BOOLEAN : Reconnect(nick, ok)
    \/ \E from \in Others, kind \in SignalKinds, ok \in BOOLEAN :
           RecvSignal(from, kind, ok)
    \/ \E from \in Others, a \in LoopModActions, t \in LoopNicks :
           ModAction(from, a, t)
    \/ \E nick \in Others, r \in LoopRoleStrs : RecvRole(nick, r)

SpecLoop == LoopInit /\ [][NextLoop]_vars

\* The same node with its two audio tasks: the mix task and the forward task
\* run next to the handlers that change the peer table and the node's role.
NextAudio ==
    \/ SetOurRole
    \/ \E nick \in Others \cup banned_users, ok \in BOOLEAN :
           UserJoined(nick, "Peer", ok)
    \/ \E nick \in Others : UserLeft(nick)
    \/ \E from \in Others, kind \in SignalKinds, ok \in BOOLEAN :
           RecvSignal(from, kind, ok)
    \/ \E from \in Others, a \in LoopModActions, t \in LoopNicks :
           ModAction(from, a, t)
    \/ \E nick \in Others, r \in LoopRoleStrs : RecvRole(nick, r)
    \/ \E nick \in Others, p \in Packets : MixStep(nick, p)
    \/ ForwardStep

AudioInit ==
    /\ SrvInit
    /\ peer_pubkeys = [n \in LoopNicks |-> "K1"]
    /\ CliRest
    /\ \E n \in OurNicks, r \in {"Host", "Peer"} : LoopInitWith(n, r, None)
    /\ NetInit

SpecAudio == AudioInit /\ [][NextAudio]_vars

\* The server with two channels, for what a VOIRC_HELLO broadcasts: clients
\* connect, stage nicks, join and leave the channels, and send validly signed
\* HELLOs.
TwoChannels == {"#general", "#dev"}

NextHello ==
    \/ \E a \in Addrs : Connect(a)
    \/ \E a \in Addrs : Disconnect(a)
    \/ \E a \in Addrs, n \in Nicks : CmdNick(a, n)
    \/ \E a \in Addrs, c \in TwoChannels : CmdJoin(a, c)
    \/ \E a \in Addrs, c \in TwoChannels : CmdPart(a, c)
    \/ \E a \in Addrs, n \in Nicks : \E k \in KeysOf(a) : HelloCheck(a, n, k, "valid")
    \/ \E a \in Addrs : HelloBind(a)

SpecHello == Init /\ [][NextHello]_vars

\* The connection tasks with handle_hello at the level of the state lock.
\* The runtime polls a task whose lock request can be granted.
NextLock ==
    \/ \E a \in Addrs : LockConnect(a)
    \/ \E a \in Addrs : LockDisconnect(a)
    \/ \E a \in Addrs, n \in Nicks : LockNick(a, n)
    \/ \E a \in Addrs, n \in Nicks, s \in HelloSigs : \E k \in KeysOf(a) : LockHelloCheck(a, n, k, s)
    \/ \E a \in Addrs, n \in Nicks : \E k \in KeysOf(a) : HelloRead(a, n, k)
    \/ \E a \in Addrs : HelloNotice(a)
    \/ \E a \in Addrs : LockHelloBind(a)
    \/ \E a \in Addrs, b \in PowSetInputs : LockPowSet(a, b)
    \/ \E a \in Addrs : WriteWait(a)

SpecLock ==
    /\ Init
    /\ [][NextLock]_vars
    /\ \A a \in Addrs : WF_vars(HelloNotice(a))

\* Two clients connect and meet in #general.  Every task of the server and
\* of the clients that has something to do gets to run.
NextRv ==
    \/ \E a \in Addrs : RvConnect(a)
    \/ \E a \in Addrs : RvServe(a)
    \/ \E a \in Addrs : RvBind(a)
    \/ \E a \in Addrs : RvHandle(a)
    \/ \E a \in Addrs : RvLoop(a)

SpecRv ==
    /\ Init
    /\ [][NextRv]_vars
    /\ \A a \in Addrs :
           /\ WF_vars(RvConnect(a))
           /\ WF_vars(RvServe(a))
           /\ WF_vars(RvBind(a))
           /\ WF_vars(RvHandle(a))
           /\ WF_vars(RvLoop(a))

\* Two broadcasts to one channel of four members.
BcInit ==
    /\ SrvInit
    /\ CliInit
    /\ LoopInitWith("al", "Peer", None)
    /\ RvIdle
    /\ LifeIdle
    /\ bc_order \in BcOrders
    /\ bc_sent = EmptyMap
    /\ bc_rx = [m \in BcMembers |-> << >>]

NextBc ==
    \/ \E t \in BcSenders : BcBegin(t)
    \/ \E t \in BcSenders : BcSend(t)

SpecBc == BcInit /\ [][NextBc]_vars

\* The peer records of a node: the event loop, the callbacks of its media
\* sessions and the per-frame refresh.
NextPeers ==
    \/ \E nick \in Others, ok \in BOOLEAN : UserJoined(nick, "Peer", ok)
    \/ \E nick \in Others : UserLeft(nick)
    \/ \E nick \in Others : ConnFailed(nick)
    \/ \E nick \in Others, ok \in BOOLEAN : Reconnect(nick, ok)
    \/ \E from \in Others, ok \in BOOLEAN : RecvSignal(from, "Offer", ok)
    \/ \E nick \in Others, r \in LoopRoleStrs : RecvRole(nick, r)
    \/ \E nick \in Others, st \in PeerConnStates : PeerConnState(nick, st)
    \/ \E recent \in SUBSET Others, late \in SUBSET Others : RefreshSpeaking(recent, late)

\* A node started as peer, with a relay address.
PeersInit ==
    /\ SrvInit
    /\ peer_pubkeys = [n \in LoopNicks |-> "K1"]
    /\ CliRest
    /\ LoopInitWith("al", "Peer", "relay")
    /\ NetInit

SpecPeers == PeersInit /\ [][NextPeers]_vars

NextLife ==
    \/ \E nick \in Others, ok \in BOOLEAN : LifeJoined(nick, "Peer", ok)
    \/ \E nick \in Others : LifeLeft(nick)
    \/ \E nick \in Others, st \in PeerConnStates : LifeStateChange(nick, st)
    \/ \E nick \in Others, st \in PeerConnStates : LifeCallback(nick, st)
    \/ LifeConnFailed
    \/ \E ok \in BOOLEAN : LifeReconnect(ok)

SpecLife == PeersInit /\ [][NextLife]_vars

NextBackoff ==
    \/ \E nick \in Others, ok \in BOOLEAN : BackoffJoined(nick, ok)
    \/ \E nick \in Others, ok \in BOOLEAN : BackoffReconnect(nick, ok)
    \/ \E from \in Others, kind \in {"Offer", "Answer"}, ok \in BOOLEAN :
           BackoffSignal(from, kind, ok)

SpecBackoff == PeersInit /\ [][NextBackoff]_vars

NextCall ==
    \/ \E nick \in Others, ok \in BOOLEAN : CallJoined(nick, ok)
    \/ \E from \in Others, kind \in {"Offer", "Answer"}, ok \in BOOLEAN :
           CallSignal(from, kind, ok)
    \/ \E new_ch \in CallChannels : SwitchChannel(new_ch)
    \/ Shutdown

SpecCall == PeersInit /\ [][NextCall]_vars

NextDc == \E msg \in DcFrames : DcMessage(msg)

\* The server with its KICK command: the clients connect, take nicks, say
\* HELLO, join, kick and talk.
NextKick ==
    \/ \E a \in Addrs : Connect(a)
    \/ \E a \in Addrs, n \in Nicks : CmdNick(a, n)
    \/ \E a \in Addrs, c \in Channels : CmdJoin(a, c)
    \/ \E a \in Addrs, c \in Channels, n \in Nicks, b \in Addrs : CmdKick(a, c, n, b)
    \/ \E a \in Addrs, t \in PrivmsgTargets, b \in Addrs : CmdPrivmsg(a, t, b)
    \/ \E a \in Addrs, n \in Nicks, s \in HelloSigs : \E k \in KeysOf(a) : HelloCheck(a, n, k, s)
    \/ \E a \in Addrs : HelloBind(a)

SpecKick == Init /\ [][NextKick]_vars

\* The server with everything that changes the membership of a channel:
\* clients connect, stage nicks, authenticate, join, leave, kick and
\* disconnect in any order.
NextMember ==
    \/ \E a \in Addrs : Connect(a)
    \/ \E a \in Addrs : Disconnect(a)
    \/ \E a \in Addrs, n \in Nicks : CmdNick(a, n)
    \/ \E a \in Addrs, c \in Channels : CmdJoin(a, c)
    \/ \E a \in Addrs, c \in Channels : CmdPart(a, c)
    \/ \E a \in Addrs, c \in Channels, n \in Nicks, b \in Addrs : CmdKick(a, c, n, b)
    \/ \E a \in Addrs, n \in Nicks : \E k \in KeysOf(a) : HelloCheck(a, n, k, "valid")
    \/ \E a \in Addrs : HelloBind(a)

SpecMember == Init /\ [][NextMember]_vars

NextLine ==
    \/ \E a \in Addrs : LineConnect(a)
    \/ \E a \in Addrs, line \in Lines : RecvLine(a, line)
    \/ \E a \in Addrs : LineDisconnect(a)

SpecLine == Init /\ [][NextLine]_vars

NextLzb == \E hash \in LzbHashes, overflow_checks \in BOOLEAN : LzbCall(hash, overflow_checks)

SpecLzb == PeersInit /\ [][NextLzb]_vars

NextMine ==
    \E sha \in [1..Len(Nonces) -> MineHashes], required_bits \in MineBits,
       max_attempts \in MineMax : MineCall(sha, required_bits, max_attempts)

SpecMine == PeersInit /\ [][NextMine]_vars

NextLink ==
    \E host \in LinkHosts, port \in LinkPorts, chs \in LinkChannels,
       cert_fingerprint \in LinkFingerprints, relay_port \in LinkRelayPorts,
       with_prefix \in BOOLEAN :
        LinkCall(ConnectionInfo(host, port, chs, cert_fingerprint, relay_port), with_prefix)

SpecLink == PeersInit /\ [][NextLink]_vars

(***************************************************************************)
(* The roles of two clients that meet through the server: the host on     *)
(* connection a1 and a joiner on a2.  connect_to_server announces the      *)
(* role once, as soon as IrcClient::connect has returned, which is before  *)
(* the timers of VOIRC_HELLO (200 ms) and of JOIN (500 ms) fire.           *)
(***************************************************************************)

RoleOf(a) == IF a = "a1" THEN "Host" ELSE "Peer"

\* Role::as_str
as_str(role) == CASE role = "Host" -> "host" [] role = "Mod" -> "mod" [] OTHER -> "peer"

\* IrcClient::announce_role
announce_role(channel, role) == Cmd("ROLE", channel, as_str(role), 0)

RoleConnectCmds(a) ==
    <<Cmd("NICK", None, None, 0), Cmd("USER", None, None, 0),
      announce_role("#general", RoleOf(a)), HelloCmd, Cmd("JOIN", "#general", None, 0)>>

RoleRest == <<srv_vars, cli_vars, loop_vars, bc_vars, cb_pending, reconnect_q, conn_failed_q,
              left, cmd_vars, dc_vars, relay_vars, line_vars, pow_vars, link_vars, mesh_vars>>

\* The connection is accepted and registered; the client queues its lines.
RoleConnect(a) ==
    /\ SrvConnect(a)
    /\ out_tx[a] = << >>
    /\ out_tx' = [out_tx EXCEPT ![a] = RoleConnectCmds(a)]
    /\ UNCHANGED <<srv_tx, rv_pubkeys, rv_events, rv_frags, rv_peers, rv_seen>>
    /\ UNCHANGED RvRest

\* The text of a relayed PRIVMSG is a role announcement.
IsRoleLine(m) == m.kind = "PRIVMSG" /\ m.text \in RoleStrs

\* HandlerContext::handle_message with the VOIRC_ROLE branch of
\* handle_privmsg: dropped from a nick without a registered key, else the
\* role is recorded.
RoleHandle(a) ==
    /\ srv_tx[a] /= << >>
    /\ LET m == Head(srv_tx[a])
       IN  IF IsRoleLine(m)
           THEN /\ rv_roles' =
                       IF is_verified(rv_pubkeys[a], m.a1)
                       THEN [rv_roles EXCEPT ![a] = set_peer_role(@, m.a1, RoleFromStr(m.text))]
                       ELSE rv_roles
                /\ srv_tx' = [srv_tx EXCEPT ![a] = Tail(@)]
                /\ UNCHANGED <<out_tx, rv_pubkeys, rv_events, rv_frags, rv_peers, rv_seen>>
           ELSE /\ RvHandleLine(a)
                /\ UNCHANGED rv_roles
    /\ UNCHANGED RoleRest

\* VoircApp::event_loop on the next IrcEvent, with the peer records: the
\* handler's UserJoined carries Role::Peer, which the loop records for the
\* nick before maybe_create_peer; an Offer is tested against the recorded
\* role of its sender.
RoleLoop(a) ==
    /\ rv_events[a] /= << >>
    /\ LET e == Head(rv_events[a])
           ps == set_peer_role(update_peer_state(rv_roles[a], e.nick, FALSE, FALSE),
                               e.nick, "Peer")
           r == maybe_create_peer(ps, e.nick, RvNick(a), RoleOf(a), TRUE)
           accepts == should_connect_to(rv_roles[a], RoleOf(a),
                                        get_peer_role(rv_roles[a], e.nick))
       IN  CASE e.kind = "UserJoined" ->
                  /\ rv_roles' = [rv_roles EXCEPT ![a] = r.peer_states]
                  /\ rv_peers' = IF r.offer THEN [rv_peers EXCEPT ![a] = @ \cup {e.nick}] ELSE rv_peers
                  /\ out_tx' = IF r.offer
                               THEN [out_tx EXCEPT ![a] = @ \o SignalCmds(e.nick, "Offer")]
                               ELSE out_tx
             [] e.kind = "WebRtcSignal" /\ e.signal = "Offer" ->
                  /\ rv_roles' = IF accepts
                                 THEN [rv_roles EXCEPT ![a] = set_peer_connecting(@, e.nick)]
                                 ELSE rv_roles
                  /\ rv_peers' = IF accepts THEN [rv_peers EXCEPT ![a] = @ \cup {e.nick}] ELSE rv_peers
                  /\ out_tx' = IF accepts
                               THEN [out_tx EXCEPT ![a] = @ \o SignalCmds(e.nick, "Answer")]
                               ELSE out_tx
             [] OTHER -> UNCHANGED <<rv_roles, rv_peers, out_tx>>
    /\ rv_events' = [rv_events EXCEPT ![a] = Tail(@)]
    /\ UNCHANGED <<srv_tx, rv_pubkeys, rv_frags, rv_seen>>
    /\ UNCHANGED RoleRest

\* The host and the joiner connect and meet in #general.  Every task of the
\* server and of the clients that has something to do gets to run, and no
\* line is lost on the way.
NextRole ==
    \/ \E a \in Addrs : RoleConnect(a)
    \/ \E a \in Addrs : RvServe(a)
    \/ \E a \in Addrs : RvBind(a)
    \/ \E a \in Addrs : RoleHandle(a)
    \/ \E a \in Addrs : RoleLoop(a)

SpecRole ==
    /\ Init
    /\ [][NextRole]_vars
    /\ \A a \in Addrs :
           /\ WF_vars(RoleConnect(a))
           /\ WF_vars(RvServe(a))
           /\ WF_vars(RvBind(a))
           /\ WF_vars(RoleHandle(a))
           /\ WF_vars(RoleLoop(a))

(***************************************************************************)
(* The audio path through a room: the microphone task, the media sessions, *)
(* the audio relay, the mix task and the forward task of every node.       *)
(***************************************************************************)

\* How often the frame is followed into one node's intake.
MaxIntake == 3

\* The pairs of nodes that can hold a media session with each other.
MeshPairs == {pr \in SUBSET MeshNicks : Cardinality(pr) = 2}

MeshRest == <<srv_vars, cli_vars, loop_vars, rv_vars, bc_vars, cb_pending, reconnect_q,
              conn_failed_q, left, cmd_vars, dc_vars, relay_vars, line_vars, pow_vars,
              link_vars, role_vars>>

\* The room forms: every node has its role, the sessions of links are up on
\* both ends, and the nodes of on_relay have connected to the audio relay.
MeshSetup(roles, links, on_relay) ==
    /\ mesh_phase = "setup"
    /\ mesh_phase' = "ready"
    /\ mesh_role' = roles
    /\ mesh_peers' = [n \in MeshNicks |-> {m \in MeshNicks : {n, m} \in links}]
    /\ mesh_relay' = on_relay
    /\ UNCHANGED <<mesh_mix, mesh_fwd, intake>>
    /\ UNCHANGED MeshRest

\* mix_tx.send((nick, packet)) at every node of to: the on_track task of the
\* session with nick, or the reader task of the RelayConnection.
IntakeSend(mix, to, nick) ==
    [n \in MeshNicks |-> IF n \in to THEN Append(mix[n], nick) ELSE mix[n]]

Count(cnt, to) == [n \in MeshNicks |-> IF n \in to THEN cnt[n] + 1 ELSE cnt[n]]

\* handle_relay_client: a frame of addr goes to all other connected clients.
RelayTargets(on_relay, nick) == IF nick \in on_relay THEN on_relay \ {nick} ELSE {}

\* The microphone task on one packet: send_audio on every session of the
\* peers table, then on the relay connection if there is one.  The sessions
\* hand the packet to the other end's on_track task, the relay to the reader
\* tasks of the other relay clients, each of which sends it into mix_tx.
MicStep ==
    /\ mesh_phase = "ready"
    /\ mesh_phase' = "sent"
    /\ LET direct == mesh_peers[Speaker]
           relayed == RelayTargets(mesh_relay, Speaker)
       IN  /\ mesh_mix' = IntakeSend(IntakeSend(mesh_mix, direct, Speaker), relayed, Speaker)
           /\ intake' = Count(Count(intake, direct), relayed)
    /\ UNCHANGED <<mesh_role, mesh_peers, mesh_relay, mesh_fwd>>
    /\ UNCHANGED MeshRest

\* The mix task of node n on the next entry of mix_rx: the entry goes on to
\* the forward task when the node's role is a superpeer role.
MeshMix(n) ==
    /\ mesh_mix[n] /= << >>
    /\ mesh_mix' = [mesh_mix EXCEPT ![n] = Tail(@)]
    /\ mesh_fwd' = IF is_superpeer(mesh_role[n])
                   THEN [mesh_fwd EXCEPT ![n] = Append(@, Head(mesh_mix[n]))]
                   ELSE mesh_fwd
    /\ UNCHANGED <<mesh_phase, mesh_role, mesh_peers, mesh_relay, intake>>
    /\ UNCHANGED MeshRest

\* The forward task of node n on the next entry of forward_rx: send_audio on
\* every session but the one of sender_nick; the other ends take it in under
\* the nick of n.
MeshForward(n) ==
    /\ mesh_fwd[n] /= << >>
    /\ LET to == ForwardTargets(mesh_peers[n], Head(mesh_fwd[n]))
       IN  /\ \A m \in to : intake[m] < MaxIntake
           /\ mesh_mix' = IntakeSend(mesh_mix, to, n)
           /\ intake' = Count(intake, to)
    /\ mesh_fwd' = [mesh_fwd EXCEPT ![n] = Tail(@)]
    /\ UNCHANGED <<mesh_phase, mesh_role, mesh_peers, mesh_relay>>
    /\ UNCHANGED MeshRest

NextMesh ==
    \/ \E roles \in [MeshNicks -> Roles], links \in SUBSET MeshPairs,
          on_relay \in SUBSET MeshNicks : MeshSetup(roles, links, on_relay)
    \/ MicStep
    \/ \E n \in MeshNicks : MeshMix(n)
    \/ \E n \in MeshNicks : MeshForward(n)

SpecMesh == PeersInit /\ [][NextMesh]_vars

\* The lines that bind keys on a client: VOIRC_PUBKEY and VOIRC_HELLO, from
\* the server's pseudo-client and from the peers.
SERVER_NICK == "voirc"
BindSenders == Senders \cup {SERVER_NICK}

NextBind ==
    \/ \E nick \in BindSenders, n \in BindSenders, k \in PeerKeys : RecvPubkey(nick, n, k)
    \/ \E nick \in BindSenders, n \in BindSenders, k \in PeerKeys, s \in {"valid", "invalid"} :
           RecvHello(nick, n, k, s)

SpecBind == Init /\ [][NextBind]_vars

NextRelay ==
    \E addr \in RelayAddrs :
        \/ \E nick_buf \in RelayNicks : RelayHandshake(addr, nick_buf)
        \/ \E p \in RelayPayloads : RelayFrame(addr, p)
        \/ RelayReadErr(addr)
        \/ RelayCleanup(addr)
        \/ \E ok \in BOOLEAN : RelayWrite(addr, ok)

SpecRelay == PeersInit /\ [][NextRelay]_vars

SpecDc == PeersInit /\ [][NextDc]_vars

\* The accept loop next to the tasks of the connections it has spawned.
AcceptInit ==
    /\ clients = EmptyMap
    /\ channels = EmptyMap
    /\ nick_pubkeys = EmptyMap
    /\ pow_required_bits \in StartBits
    /\ task = [a \in 1..MaxAccepts |-> IdleTask]
    /\ hello_ok = [a \in 1..MaxAccepts |-> NoHello]
    /\ srv_out = SrvOut("init", None, NoSent)
    /\ accepted = {}
    /\ next_addr = 1
    /\ CliInit
    /\ LoopInitWith("al", "Peer", None)
    /\ NetInit

NextAccept ==
    \/ Accept
    \/ Register
    \/ HandshakeFailed
    \/ CloseOldest

SpecAccept == AcceptInit /\ [][NextAccept]_vars


(***************************************************************************)
(*                      Claims about the signaling server                  *)
(***************************************************************************)

SentKinds(a) == {srv_out.sent[a][i].kind : i \in 1..Len(srv_out.sent[a])}

\* C1: while a client whose VOIRC_HELLO was accepted as nick N with pubkey P
\* stays connected, nick_pubkeys[N] = P, whatever the other clients do.
C1_BindingStable ==
    \A a \in DOMAIN clients :
        hello_ok[a].nick # None =>
            /\ hello_ok[a].nick \in DOMAIN nick_pubkeys
            /\ nick_pubkeys[hello_ok[a].nick] = hello_ok[a].key

C3_PowAtBindTime ==
    ( /\ srv_out.op = "hello"
      /\ srv_out.done
      /\ "HELLO_OK" \in SentKinds(srv_out.addr) )
    => HashBits(srv_out.nick, srv_out.key) >= pow_required_bits

(***************************************************************************)
(*                      Claims about the IRC client                        *)
(***************************************************************************)

PrivilegedPrefixes ==
    {"WRTC:", "VOIRC_ROLE:", "VOIRC_MOD:", "VOIRC_SYNC_REQ:", "VOIRC_SYNC_RESP:", "SIGNED:"}

\* C4: a PRIVMSG whose text starts with WRTC:, VOIRC_ROLE:, VOIRC_MOD:,
\* VOIRC_SYNC_REQ:, VOIRC_SYNC_RESP: or SIGNED:, from a nick that has no pubkey
\* bound locally when it is handled, has no effect: no fragment stored, no
\* role changed, no event sent, no line sent, nothing appended to the signed
\* log or written to its file.
C4_UnverifiedDropped ==
    [][ ( /\ cli_out'.op \in PrivilegedPrefixes
          /\ cli_out'.from \notin DOMAIN peer_pubkeys )
        =>
        ( /\ fragments' = Retain(fragments, now)
          /\ peer_states' = peer_states
          /\ message_log' = message_log
          /\ disk_log' = disk_log
          /\ cli_out'.events = NoEvents
          /\ cli_out'.sent = << >> )
      ]_vars

\* The deliveries so far are fragments of the wire only.
OnlyWireFragments == \A i \in 1..Len(delivered) : delivered[i] > 0

\* Each delivery so far is of another fragment.
EachOnce == \A i, j \in 1..Len(delivered) : delivered[i] = delivered[j] => i = j

\* C5: the fragments of a non-empty payload, each delivered once, in any
\* order, with no buffer expired in between: no WebRtcSignal before the last
\* one arrives, and then exactly one, whose payload is the original payload.
C5_FragmentRoundTrip ==
    ( /\ wire # << >>
      /\ OnlyWireFragments
      /\ EachOnce
      /\ ~ expired )
    => IF {delivered[i] : i \in 1..Len(delivered)} = 1..Len(wire)
       THEN signals = <<sent_payload>>
       ELSE signals = << >>

\* C6: once the fragments of the wire have produced a WebRtcSignal, the
\* delivery of any of them again sends no event.
C6_RedeliveryNoEvent ==
    [][ ( /\ delivered' = Append(delivered, cli_out'.d)
          /\ cli_out'.d > 0
          /\ OnlyWireFragments
          /\ ~ expired
          /\ signals # << >> )
        => cli_out'.events = NoEvents
      ]_vars

\* The header of a fragment is malformed, given the buffers it meets: missing
\* brackets, no '|', unparsable seq or total, seq = 0, seq > total, total = 0,
\* or a total other than the one recorded for its (sender, id).
Malformed(frs, sender, h) ==
    \/ ~ h.bracketed
    \/ ~ h.piped
    \/ ~ h.seq_ok
    \/ ~ h.total_ok
    \/ h.seq = 0
    \/ h.seq > h.total
    \/ h.total = 0
    \/ /\ FragKey(sender, h.msg_id) \in DOMAIN frs
       /\ frs[FragKey(sender, h.msg_id)].total # h.total

\* The buffer a fragment completes holds exactly the chunks 1..=total.
CompleteWith(frs, sender, h) ==
    LET key == FragKey(sender, h.msg_id)
    IN  IF key \in DOMAIN frs
        THEN DOMAIN frs[key].parts \cup {h.seq} = 1..frs[key].total
        ELSE {h.seq} = 1..h.total

C7_Step(frs, sender, h) ==
    /\ Malformed(frs, sender, h) => fragments' = frs /\ cli_out'.events = NoEvents
    /\ cli_out'.events # NoEvents => CompleteWith(frs, sender, h)

\* C7: a fragment with a malformed header changes no buffer and sends no
\* event, and every WebRtcSignal sent is built from a buffer that holds
\* exactly the chunks 1..=total.
C7_MalformedDropped ==
    [][ delivered' = Append(delivered, cli_out'.d)
        => C7_Step(Retain(fragments, now), cli_out'.from, FragHeader(Content(cli_out'.d)))
      ]_vars

(***************************************************************************)
(* Claims about the event loop, the topology and the audio forwarding.     *)
(***************************************************************************)

OffersSent == {i \in 1..Len(loop_out.sent) : loop_out.sent[i].kind = "Offer"}

\* C8: of a pair of nicks only the lexicographically lesser one sends an
\* Offer: whatever a step of the event loop sends (handling UserJoined, a
\* reconnect or an incoming signal), every Offer in it goes to a nick that is
\* greater, byte by byte, than the node's own nick.
C8_OnlyLesserOffers ==
    \A i \in OffersSent : LexLess(NickBytes(nickname), NickBytes(loop_out.sent[i].to))

\* A reconnect sent an Offer, while the record of a lesser nick, which must
\* not be called, is in the room.
C8_Witness ==
    /\ loop_out.op = "Reconnect"
    /\ OffersSent /= {}
    /\ \E n \in DOMAIN peer_states : LexLess(NickBytes(n), NickBytes(nickname))

SuperpeerRecorded == \E n \in DOMAIN peer_states : peer_states[n].role \in {"Host", "Mod"}

MixTook == loop_out'.op = "mix" /\ UNCHANGED <<peer_states, cli_out, our_role, peers>>
ForwardTook == Len(forward_q') < Len(forward_q)
Enqueued == Len(forward_q') > Len(forward_q)
AudioSent == IF ForwardTook \/ loop_out' /= loop_out THEN loop_out'.audio ELSE {}

\* What holds of the forwarding whatever the role does: a packet is sent on
\* only by the forward task, to every session of the peer table except the
\* sender's, and never to the sender.
ForwardExceptSender ==
    /\ ForwardTook => /\ forward_q' = Tail(forward_q)
                      /\ AudioSent = peers \ {Head(forward_q).nick}
                      /\ Head(forward_q).nick \notin AudioSent
    /\ AudioSent /= {} => ForwardTook

\* C9 as amended: the role decides when the mix task takes the packet.  A
\* packet taken while AppState.our_role is Host or Mod is queued for the
\* forward task, a packet taken while it is Peer is not, and nothing else is
\* queued; each queued packet is then sent to every session of the peer table
\* except the sender's, never to the sender.
C9_ForwardByRoleAtIntake ==
    [][/\ MixTook /\ is_superpeer(our_role) =>
              \E p \in Packets :
                  forward_q' = Append(forward_q, [nick |-> loop_out'.nick, packet |-> p])
       /\ MixTook /\ ~is_superpeer(our_role) => forward_q' = forward_q
       /\ Enqueued => MixTook /\ is_superpeer(our_role)
       /\ ForwardExceptSender]_vars

\* A packet from a nick that has a session is forwarded to the other session.
C9_Witness ==
    /\ loop_out.op = "forward"
    /\ loop_out.nick \in peers
    /\ loop_out.audio /= {}

\* C9 as stated: on top of the forwarding to all but the sender, a node whose
\* role is Peer sends no packet on, also after a promote or a demote.
C9_PeerForwardsNothing ==
    [][/\ ForwardExceptSender
       /\ ~is_superpeer(our_role) => AudioSent = {}]_vars

(***************************************************************************)
(* Claims about the accept loop.                                           *)
(***************************************************************************)

\* C11: in every reachable state the clients map has at most 100 entries and
\* at most 5 entries of one source address.
C11_ConnectionCaps ==
    /\ Cardinality(DOMAIN clients) <= MAX_TOTAL_CLIENTS
    /\ \A a \in DOMAIN clients :
           Cardinality({b \in DOMAIN clients : clients[b].ip = clients[a].ip})
               <= MAX_CLIENTS_PER_IP

(***************************************************************************)
(* Claims about disconnects and the routing of PRIVMSG.                    *)
(***************************************************************************)

\* The clients that share a channel with a, a itself left out.
SharingWith(a) == (UNION {channels[c] : c \in {c \in DOMAIN channels : a \in channels[c]}}) \ {a}

\* a is the only connected client whose accepted HELLO made the binding it
\* holds, and the binding is in the table.
OwnBinding(a) ==
    /\ hello_ok[a] /= NoHello
    /\ hello_ok[a].nick \in DOMAIN nick_pubkeys
    /\ nick_pubkeys[hello_ok[a].nick] = hello_ok[a].key
    /\ \A b \in DOMAIN clients \ {a} : hello_ok[b] /= hello_ok[a]

Disconnected(a) == a \in DOMAIN clients /\ a \notin DOMAIN clients'

\* C12: when a client disconnects, its address is in no channel and not in
\* the clients map, the binding it created is gone, every connected client
\* that shared a channel with it gets exactly one QUIT line, and nobody else
\* gets a line.
C12_DisconnectCleansUp ==
    [][\A a \in Addrs : Disconnected(a) =>
          /\ \A c \in DOMAIN channels' : a \notin channels'[c]
          /\ OwnBinding(a) => hello_ok[a].nick \notin DOMAIN nick_pubkeys'
          /\ \A b \in Addrs :
                srv_out'.sent[b] =
                    IF b \in SharingWith(a) /\ b \in DOMAIN clients'
                    THEN <<Msg("QUIT", clients[a].nick, None, 0)>>
                    ELSE << >>]_vars

Recipients == {b \in Addrs : srv_out.sent[b] /= << >>}

\* C13: a PRIVMSG whose target names a channel of the server is enqueued, once,
\* to every member of the channel except the sender and to nobody else; a
\* PRIVMSG to any other target is enqueued to exactly one client whose nick is
\* the target, or to nobody when there is none; and a PRIVMSG of a client that
\* is not authenticated while its staged nick is bound is enqueued to nobody.
\* (srv_out.nick holds the target of the PRIVMSG.)
C13_PrivmsgRouting ==
    srv_out.op = "privmsg" =>
        LET a == srv_out.addr
            target == srv_out.nick
        IN  /\ \A b \in Recipients :
                   srv_out.sent[b] = <<Msg("PRIVMSG", clients[a].nick, target, 0)>>
            /\ IF /\ clients[a].nick \in DOMAIN nick_pubkeys
                  /\ ~ clients[a].authenticated
               THEN Recipients = {}
               ELSE IF target \in DOMAIN channels
               THEN Recipients = channels[target] \ {a}
               ELSE \/ /\ Recipients = {}
                       /\ \A b \in DOMAIN clients : clients[b].nick /= target
                    \/ \E b \in DOMAIN clients :
                           Recipients = {b} /\ clients[b].nick = target

\* A member of a channel sent to the channel while its staged nick is bound
\* and it is authenticated, and another member got the line.
C13_Witness ==
    /\ srv_out.op = "privmsg"
    /\ srv_out.nick \in DOMAIN channels
    /\ srv_out.addr \in channels[srv_out.nick]
    /\ clients[srv_out.addr].nick \in DOMAIN nick_pubkeys
    /\ Recipients /= {}

(***************************************************************************)
(* Claims about VOIRC_HELLO and VOIRC_POW_SET.                             *)
(***************************************************************************)

\* The write-locked block of handle_hello runs for a: the checks of the
\* signature, of the staged nick and of the PoW have passed.
Binds(a) == task[a].pc = "hello_bind" /\ task'[a].pc = "idle"

\* C14: when the checks of a VOIRC_HELLO have passed and the nick is unbound or
\* bound to the same key, the nick is bound to the key, the client gets the
\* key and the authenticated flag, the sender gets exactly HELLO_OK with the
\* actual bits, and VOIRC_PUBKEY goes exactly once to each other client that
\* is in a channel with the sender, and to nobody else.
C14_HelloSuccess ==
    [][\A a \in Addrs :
          ( /\ Binds(a)
            /\ \/ task[a].nick \notin DOMAIN nick_pubkeys
               \/ nick_pubkeys[task[a].nick] = task[a].key )
          =>
          LET n == task[a].nick
              k == task[a].key
          IN  /\ DOMAIN nick_pubkeys' = DOMAIN nick_pubkeys \cup {n}
              /\ \A x \in DOMAIN nick_pubkeys' :
                     nick_pubkeys'[x] = IF x = n THEN k ELSE nick_pubkeys[x]
              /\ clients'[a].pubkey = k
              /\ clients'[a].authenticated
              /\ srv_out'.sent[a] = <<Msg("HELLO_OK", n, None, HashBits(n, k))>>
              /\ \A b \in Addrs \ {a} :
                     srv_out'.sent[b] =
                         IF b \in SharingWith(a) /\ b \in DOMAIN clients
                         THEN <<Msg("VOIRC_PUBKEY", n, k, 0)>>
                         ELSE << >>]_vars

\* A HELLO was accepted while the sender shared two channels with another
\* client, which got the key once.
C14_Witness ==
    /\ srv_out.op = "hello"
    /\ srv_out.done
    /\ SentKinds(srv_out.addr) = {"HELLO_OK"}
    /\ \E b \in Addrs \ {srv_out.addr} :
           /\ \A c \in TwoChannels :
                  c \in DOMAIN channels /\ {b, srv_out.addr} \subseteq channels[c]
           /\ Len(srv_out.sent[b]) = 1
           /\ SentKinds(b) = {"VOIRC_PUBKEY"}

\* C15: every VOIRC_HELLO that does not authenticate is answered: a handler
\* that found the staged nick or the PoW wrong sends its NOTICE HELLO_FAILED
\* and returns.
C15_FailedHelloAnswered ==
    \A a \in Addrs : (task[a].pc = "hello_notice") ~> (task[a].pc = "idle")

\* C16: pow_required_bits changes only in the step of a VOIRC_POW_SET of an
\* authenticated client with bits in 0..28; such a step sets it to bits and
\* enqueues VOIRC_POW_REQUIRED:<bits> once to every connected client; a
\* VOIRC_POW_SET of an unauthenticated client, or with bits of 29 or more or
\* not a number, leaves it unchanged and sends no VOIRC_POW_REQUIRED; it
\* never leaves 0..28.
C16_PowSetOnly ==
    [][ /\ pow_required_bits' /= pow_required_bits =>
              \E a \in DOMAIN clients, b \in 0..28 :
                  /\ PowSet(a, b)
                  /\ clients[a].authenticated
        /\ \A a \in Addrs, b \in PowSetInputs :
              PowSet(a, b) =>
                  IF clients[a].authenticated /\ b \in 0..28
                  THEN /\ pow_required_bits' = b
                       /\ \A c \in Addrs :
                              srv_out'.sent[c] =
                                  IF c \in DOMAIN clients
                                  THEN <<Msg("VOIRC_POW_REQUIRED", None, None, b)>>
                                  ELSE << >>
                  ELSE /\ pow_required_bits' = pow_required_bits
                       /\ \A c \in Addrs :
                              \A i \in 1..Len(srv_out'.sent[c]) :
                                  srv_out'.sent[c][i].kind /= "VOIRC_POW_REQUIRED"
                       /\ b \notin 0..28 =>
                              srv_out'.sent[a] = <<Msg("VOIRC_POW_SET_FAILED", None, "invalid_bits", 0)>>
        /\ pow_required_bits \in 0..28 => pow_required_bits' \in 0..28 ]_vars

\* The difficulty was raised to 28 and both connected clients were told.
C16_Witness ==
    /\ srv_out.op = "pow_set"
    /\ pow_required_bits = 28
    /\ \A c \in Addrs :
           /\ c \in DOMAIN clients
           /\ srv_out.sent[c] = <<Msg("VOIRC_POW_REQUIRED", None, None, 28)>>
    /\ \E c \in Addrs : ~ clients[c].authenticated

\* C17: after the difficulty was raised in mid-session, the VOIRC_HELLO of a
\* reconnected client whose staged nick has fewer bits than the requirement
\* is answered with pow_too_weak:<the raised bits>.
C17_WeakNickToldBits ==
    \A a \in Addrs :
        ( /\ task[a].pc = "hello_notice"
          /\ clients[a].nick = task[a].nick
          /\ pow_required_bits = MAX_POW_BITS )
        ~> ( /\ srv_out.op = "hello"
             /\ srv_out.addr = a
             /\ srv_out.sent[a] = <<Msg("HELLO_FAILED", srv_out.nick, "pow_too_weak", MAX_POW_BITS)>> )

(***************************************************************************)
(* Claims about two clients meeting through the server.                    *)
(***************************************************************************)

\* C18: two clients that both run NICK, USER, VOIRC_HELLO, JOIN #general on
\* a fresh server with PoW 0 end up with the Offer of the lesser nick
\* delivered as WebRtcSignal at the greater nick and the Answer delivered
\* as WebRtcSignal at the lesser nick.
C18_Rendezvous ==
    <>("Offer" \in rv_seen["a2"] /\ "Answer" \in rv_seen["a1"])

\* A member has the lines of both senders on its queue; the sender whose line
\* is first.
BcBoth(m) == Len(bc_rx[m]) = 2
BcFirst(m) == bc_rx[m][1]

\* C19: the members that receive both broadcasts receive them in the same order.
C19_SameOrder ==
    \A x, y \in DOMAIN bc_rx : (BcBoth(x) /\ BcBoth(y)) => BcFirst(x) = BcFirst(y)

(***************************************************************************)
(* Claims about the peer records.                                          *)
(***************************************************************************)

\* C20: in every peer record, connected implies conn_state = Connected.
C20_ConnectedIsConnected ==
    \A n \in DOMAIN peer_states :
        peer_states[n].connected => peer_states[n].conn_state = "Connected"

\* C21: once the loop has processed UserLeft(N), and until a UserJoined(N),
\* the client holds no peer record and no media session for N, whatever
\* callbacks and queued Reconnect/ConnFailed signals of the closed session
\* are still to run.
C21_LeftStaysGone ==
    \A n \in left : n \notin DOMAIN peer_states /\ n \notin peers

\* C22: every reconnect attempt waits min(2^attempts, 30) seconds, at least 1
\* and at most 30, whatever the counter; the counter of a nick is reset when
\* an Offer of that nick is answered and when an Answer of that nick is
\* handed to its session.
C22_BackoffBounded ==
    [][/\ \A n \in Others :
            (/\ n \in DOMAIN reconnect_attempts'
             /\ (n \notin DOMAIN reconnect_attempts
                    \/ reconnect_attempts'[n] /= reconnect_attempts[n]))
            => /\ loop_out'.why /= "panic"
               /\ loop_out'.delay >= 1
               /\ loop_out'.delay <= MaxBackoffSecs
               /\ loop_out'.delay = Backoff(reconnect_attempts'[n])
       /\ (loop_out'.op = "Signal" /\ loop_out' /= loop_out
              /\ \/ loop_out'.why = "answer"
                 \/ loop_out'.why = "Answer" /\ loop_out'.nick \in peers)
           => loop_out'.nick \notin DOMAIN reconnect_attempts'
      ]_vars

\* C23: SwitchChannel(new) closes every media session and empties the peer
\* table, then clears the peer records, then queues PART old, JOIN new and
\* the VOIRC_ROLE announcement for new, in that order; no session that was
\* in the peer table before the switch is in it afterwards.
C23_SwitchOrder ==
    [][\A new_ch \in CallChannels :
          SwitchChannel(new_ch) =>
              /\ Len(cmd_out'.effects) = 5
              /\ cmd_out'.effects[1] = Closed(peers)
              /\ cmd_out'.effects[2] = ClearPeers
              /\ cmd_out'.effects[3] = SendRaw(<<"PART", current_channel>>)
              /\ cmd_out'.effects[4] = SendRaw(<<"JOIN", new_ch>>)
              /\ cmd_out'.effects[5] = SendRaw(<<"PRIVMSG", new_ch, "VOIRC_ROLE", loop_role>>)
              /\ peers' = {}
              /\ DOMAIN peer_states' = {}
      ]_vars

\* A switch from #general to #dev that closed two sessions.
C23_Witness ==
    /\ cmd_out.op = "SwitchChannel"
    /\ Cardinality(cmd_out.effects[1].what) = 2
    /\ cmd_out.effects[3].what = <<"PART", "#general">>
    /\ current_channel = "#dev"
    /\ peers = {}

\* The sessions that the last handler has called close() on.
ClosedByHandler ==
    UNION {cmd_out.effects[i].what :
             i \in {j \in DOMAIN cmd_out.effects : cmd_out.effects[j].effect = "close"}}

\* C24: when the loop has exited on a Shutdown command, close() has been
\* called on every media session of the peer table.
C24_ShutdownClosesAll ==
    ~running => peers \subseteq ClosedByHandler

UniqueIds(list) ==
    \A i, j \in 1..Len(list) : list[i].id = list[j].id => i = j

SortedByTimestamp(list) ==
    \A i, j \in 1..Len(list) : i < j => list[i].timestamp <= list[j].timestamp

\* C25: after any sequence of appends the channel's list holds every message
\* id at most once and is sorted by timestamp, and so does the list that
\* load_channel rebuilds from the channel's file.
C25_AppendIdempotent ==
    /\ UniqueIds(message_log)
    /\ SortedByTimestamp(message_log)
    /\ UniqueIds(load_channel(disk_log))
    /\ SortedByTimestamp(load_channel(disk_log))

\* C26: when the write to the channel's file fails in the append of a SIGNED
\* message that the handler accepts, the handler goes on (the ChatMessage
\* event is sent) and the message is in the channel's list afterwards.
C26_WriteFailureKeepsMessage ==
    [][\A nick \in Senders, msg \in SignedMsgs :
          (/\ RecvSigned(nick, ChatChannel, msg, TRUE, FALSE)
           /\ cli_out'.events /= NoEvents)
          => \E i \in 1..Len(message_log') : message_log'[i] = msg
      ]_vars

\* What the gate is to refuse: an invalid signature, or a pubkey other than
\* the one known locally for nick.
Forged(msg, nick) ==
    \/ verify(msg, now) = "InvalidSignature"
    \/ nick \in DOMAIN peer_pubkeys /\ peer_pubkeys[nick] /= msg.pubkey

Ids(list) == {list[i].id : i \in 1..Len(list)}

CountOf(messages, Test(_)) == Cardinality({i \in 1..Len(messages) : Test(messages[i])})

\* C27: a SIGNED message that is forged for its sender is not appended and
\* sends no ChatMessage; of a sync response, the messages forged for their
\* author are not appended and are counted as rejected, all the others are
\* in the log afterwards and are counted as accepted.
C27_SignatureGate ==
    [][/\ \A nick \in Senders, msg \in SignedMsgs, disk_ok \in BOOLEAN :
            (RecvSigned(nick, ChatChannel, msg, TRUE, disk_ok) /\ Forged(msg, nick))
            => /\ message_log' = message_log
               /\ disk_log' = disk_log
               /\ cli_out'.events = NoEvents
       /\ \A nick \in Senders, messages \in SyncResponses, disk_ok \in BOOLEAN :
            (RecvSyncResp(nick, messages, TRUE, disk_ok) /\ is_verified(peer_pubkeys, nick))
            => LET r == process_sync_response(message_log, disk_log, messages,
                                              trusted_keys_snapshot(peer_pubkeys), now,
                                              disk_ok)
                   IsForged(m) == Forged(m, m.author)
                   IsGenuine(m) == ~Forged(m, m.author)
               IN  /\ r.rejected = CountOf(messages, IsForged)
                   /\ r.accepted = CountOf(messages, IsGenuine)
                   /\ \A i \in 1..Len(messages) :
                         IF IsForged(messages[i])
                         THEN messages[i].id \in Ids(message_log') =>
                                  messages[i].id \in Ids(message_log)
                         ELSE messages[i].id \in Ids(message_log')
                   /\ cli_out'.events = NoEvents
      ]_vars

\* The frames of the claim: a header is a text FILE:<name>:<size>, an end is
\* the text FILE_END, white space around it aside.
IsHeader(f) ==
    /\ f.is_string
    /\ \E i \in (Len(FILE_PREFIX) + 1)..Len(f.data) :
          SubSeq(f.data, 1, Len(FILE_PREFIX)) = FILE_PREFIX /\ f.data[i] = Ord(":")
IsEnd(f) == f.is_string /\ ~IsHeader(f) /\ trim(f.data) = FILE_END

\* A transfer is in flight when frame i arrives: after the header at h no
\* end has arrived.
OpenSince(frames, h, i) ==
    /\ h < i
    /\ IsHeader(frames[h])
    /\ \A k \in (h + 1)..(i - 1) : ~IsEnd(frames[k])
LastHeader(frames, i) ==
    CHOOSE h \in 1..(i - 1) :
        IsHeader(frames[h]) /\ \A k \in (h + 1)..(i - 1) : ~IsHeader(frames[k])
HeaderName(f) ==
    LET colons == {i \in (Len(FILE_PREFIX) + 1)..Len(f.data) : f.data[i] = Ord(":")}
    IN  SubSeq(f.data, Len(FILE_PREFIX) + 1, (CHOOSE i \in colons : \A j \in colons : j <= i) - 1)
RECURSIVE BinaryBetween(_, _, _)
BinaryBetween(frames, h, i) ==
    IF h + 1 >= i THEN << >>
    ELSE BinaryBetween(frames, h, i - 1)
           \o (IF frames[i - 1].is_string THEN << >> ELSE frames[i - 1].data)
RECURSIVE ExpectedFiles(_, _)
ExpectedFiles(frames, n) ==
    IF n = 0 THEN << >>
    ELSE ExpectedFiles(frames, n - 1)
           \o (IF IsEnd(frames[n]) /\ \E h \in 1..(n - 1) : OpenSince(frames, h, n)
               THEN <<ReceivedFile(DcPeer, HeaderName(frames[LastHeader(frames, n)]),
                                   BinaryBetween(frames, LastHeader(frames, n), n))>>
               ELSE << >>)

\* C28: the ReceivedFile events are exactly those of the FILE_END frames
\* that arrive while a transfer is in flight, each with the name of the
\* latest header and the binary frames since that header, in order.
C28_FileReception ==
    file_tx = ExpectedFiles(dc_seen, Len(dc_seen))

\* A header, a binary frame, a second header that discards it, a binary
\* frame and the end: one file, with the second frame only.
C28_Witness ==
    /\ Len(dc_seen) = 5
    /\ IsHeader(dc_seen[1]) /\ ~dc_seen[2].is_string /\ IsHeader(dc_seen[3])
    /\ ~dc_seen[4].is_string /\ dc_seen[4] /= dc_seen[2]
    /\ Len(file_tx) = 1
    /\ file_tx[1].data = dc_seen[4].data


\* The relay frame that the claim gives for a payload from a connection:
\* tagged with the nick bytes of that connection's handshake.
TaggedWithHandshake(hs, payload) ==
    <<Len(hs)>> \o hs \o to_be_bytes(Len(payload)) \o payload

\* C29: a client is registered only by a handshake whose nick length is in
\* [1, 64]; a frame with a payload length in [1, 4096] is enqueued, tagged
\* with the nick of the sender's handshake, to every other registered client
\* and to nobody else; a frame with a length of 0 or above 4096 enqueues
\* nothing and ends the connection, whose cleanup removes the client; a
\* client that is not in the map is sent no frame.
C29_RelayForward ==
    [][\A addr \in RelayAddrs :
        /\ addr \in DOMAIN relay_clients' \ DOMAIN relay_clients
            => Len(relay_hs'[addr]) \in 1..MAX_NICK_LEN
        /\ \A p \in RelayPayloads :
            RelayFrame(addr, p) =>
                IF p.len \in 1..MAX_PAYLOAD_LEN
                THEN \A c \in RelayAddrs :
                        relay_rx'[c] =
                            IF c \in DOMAIN relay_clients /\ c /= addr
                            THEN Append(relay_rx[c],
                                        TaggedWithHandshake(relay_hs[addr], p.bytes))
                            ELSE relay_rx[c]
                ELSE /\ relay_rx' = relay_rx
                     /\ relay_phase'[addr] = "ended"
        /\ relay_phase'[addr] = "done" => addr \notin DOMAIN relay_clients'
        /\ addr \notin DOMAIN relay_clients'
            => Len(relay_rx'[addr]) <= Len(relay_rx[addr])
      ]_vars

\* The members of a channel (none when the channel is not in the map).
MembersOf(chs, channel) == IF channel \in DOMAIN chs THEN chs[channel] ELSE {}

\* C30: a KICK for the nick of a connected client, from an authenticated
\* client, enqueues the kick line to every member of the channel and to
\* nobody else, and afterwards no client with that nick is a member of the
\* channel, the other memberships being as before; a PRIVMSG to a channel is
\* enqueued to members only and a client becomes a member by its own JOIN
\* only; a KICK from an unauthenticated client changes no membership and
\* enqueues nothing.
C30_Kick ==
    [][/\ \A a \in Addrs, c \in Channels, n \in Nicks, b \in Addrs :
            CmdKick(a, c, n, b) =>
                IF clients[a].authenticated
                THEN Named(n) # {} =>
                        /\ srv_out'.sent =
                               SendAll(clients, NoSent, MembersOf(channels, c),
                                       KickMsg(clients[a].nick, c, n))
                        /\ MembersOf(channels', c) = MembersOf(channels, c) \ Named(n)
                        /\ \A d \in Channels \ {c} :
                               MembersOf(channels', d) = MembersOf(channels, d)
                ELSE /\ channels' = channels
                     /\ srv_out'.sent = NoSent
       /\ \A a \in Addrs, c \in Channels, b \in Addrs :
            CmdPrivmsg(a, c, b) /\ c \in DOMAIN channels =>
                \A x \in Addrs : srv_out'.sent[x] # << >> => x \in channels[c]
       /\ \A x \in Addrs, c \in Channels :
            x \in MembersOf(channels', c) \ MembersOf(channels, c) => CmdJoin(x, c)
      ]_vars

\* C31: a line of at most 512 bytes, CRLF included, is processed as a
\* command (a NICK line has the effect of the NICK command) and the
\* connection goes on; a line of 513 bytes or more changes nothing of the
\* server's state and the connection goes on, so that the next line is
\* processed as it would have been.
C31_LineLimit ==
    [][\A a \in Addrs, line \in Lines :
        RecvLine(a, line) =>
            /\ a \notin read_err'
            /\ IF Len(line) <= MAX_MSG_LEN
               THEN \A n \in Nicks : trim(line) = NickCmd(n) => SrvNick(a, n)
               ELSE UNCHANGED <<clients, channels, nick_pubkeys, pow_required_bits, task,
                                hello_ok, srv_out>>
      ]_vars

\* The number of leading zero bits of a hash, counted bit by bit.
ZeroBits(hash) ==
    LET bit(k) == (hash[((k - 1) \div 8) + 1] \div Pow2(7 - ((k - 1) % 8))) % 2
        Ones == {k \in 1..(8 * Len(hash)) : bit(k) = 1}
    IN  IF Ones = {} THEN 8 * Len(hash)
        ELSE (CHOOSE k \in Ones : \A j \in Ones : k <= j) - 1

\* C32: for D > 0 mine_nick returns the candidate of the least nonce below
\* max whose hash has at least D leading zero bits, with nonce that nonce,
\* attempts the nonce plus one and bits the leading zero bits of the hash,
\* and verify_nick accepts the nick at D; it returns None when no nonce
\* below max qualifies; for D = 0 it returns the base name with zero
\* attempts, and verify_nick at 0 accepts any nick.
C32_MineNick ==
    \A i \in 1..Len(mine_call) :
        LET c == mine_call[i]
            Q == {k \in 1..Len(Nonces) :
                    /\ LtU64(Nonces[k], c.max_attempts)
                    /\ ZeroBits(c.sha[k]) >= c.required_bits}
            least == CHOOSE k \in Q : \A j \in Q : k <= j
        IN  IF c.required_bits = 0
            THEN /\ Len(c.result) = 1
                 /\ c.result[1].nick = MineBase
                 /\ c.result[1].attempts = U64(0, 0, 0)
                 /\ verify_nick(MineBase, c.sha, 0)
                 /\ verify_nick(Candidate(MineBase, Nonces[1]), c.sha, 0)
            ELSE IF Q = {} THEN c.result = << >>
            ELSE /\ c.result = <<MinedNick(Candidate(MineBase, Nonces[least]), Nonces[least],
                                           ZeroBits(c.sha[least]), IncU64(Nonces[least]))>>
                 /\ verify_nick(c.result[1].nick, c.sha, c.required_bits)

AllZero == [i \in 1..HASH_LEN |-> 0]

\* C33: leading_zero_bits counts in its u8 without overflow for every hash
\* and returns the number of leading zero bits: 0 for a first byte 0x80, 1
\* for 0x40, 7 for 0x01, 8 for the bytes 0x00 0x80, and 32 for the hash of
\* 32 zero bytes.
C33_LeadingZeroBits ==
    \A i \in 1..Len(lzb_call) :
        LET c == lzb_call[i]
        IN  /\ ~ c.result.panicked
            /\ c.hash # AllZero => c.result.count = ZeroBits(c.hash)
            /\ c.hash[1] = 128 => c.result.count = 0
            /\ c.hash[1] = 64 => c.result.count = 1
            /\ c.hash[1] = 1 => c.result.count = 7
            /\ c.hash[1] = 0 /\ c.hash[2] = 128 => c.result.count = 8
            /\ c.hash = AllZero => c.result.count = 32

\* C34: from_magic_link(to_magic_link(D)) equals D field for field, the
\* input with or without the voirc:// prefix, and the optional fields that
\* are None are not on the wire.
C34_LinkRoundTrip ==
    \A i \in 1..Len(link_call) :
        LET c == link_call[i]
        IN  /\ c.parsed = c.info
            /\ c.info.cert_fingerprint = << >>
                   => "cert_fingerprint" \notin DOMAIN c.link.base64
            /\ c.info.relay_port = << >> => "relay_port" \notin DOMAIN c.link.base64

\* The client at a is authenticated and the table binds its staged nick to
\* its pubkey.
BoundAsStaged(cl, np, a) ==
    /\ cl[a].nick # None
    /\ cl[a].pubkey # None
    /\ cl[a].nick \in DOMAIN np
    /\ np[cl[a].nick] = cl[a].pubkey

\* C35: after every step each authenticated client has a staged nick and a
\* pubkey that the binding table binds to each other; and when a client
\* disconnects, the binding that its accepted HELLO created is in the table
\* afterwards only if the accepted HELLO of a client still connected
\* created the same.
C35_AuthImpliesBinding ==
    [][/\ \A a \in DOMAIN clients' : clients'[a].authenticated
                                        => BoundAsStaged(clients', nick_pubkeys', a)
       /\ \A a \in Addrs :
            (Disconnect(a) /\ hello_ok[a] # NoHello
             /\ \A b \in DOMAIN clients' : hello_ok'[b] # hello_ok[a])
                => \/ hello_ok[a].nick \notin DOMAIN nick_pubkeys'
                   \/ nick_pubkeys'[hello_ok[a].nick] # hello_ok[a].key
      ]_vars

\* C36: a binding for a nick N enters the client's table only by a line
\* from the server's pseudo-client or from N itself: no VOIRC_PUBKEY and no
\* VOIRC_HELLO sent by another peer M binds N.
C36_NoThirdPartyBinding ==
    [][\A n \in Senders :
        (n \notin DOMAIN peer_pubkeys /\ n \in DOMAIN peer_pubkeys') =>
            \E nick \in {SERVER_NICK, n}, k \in PeerKeys :
                \/ RecvPubkey(nick, n, k)
                \/ RecvHello(nick, n, k, "valid")
      ]_vars

\* C37: a ModAction event with the action promote or demote from a sender
\* whose recorded role is not Host changes no peer's recorded role and not
\* the node's own role.
C37_HostOnlyPromote ==
    [][\A from \in Others, action \in {"promote", "demote"}, target \in LoopNicks :
        (ModAction(from, action, target) /\ get_peer_role(peer_states, from) # "Host")
            => /\ our_role' = our_role
               /\ \A n \in LoopNicks :
                      get_peer_role(peer_states', n) = get_peer_role(peer_states, n)
      ]_vars

(***************************************************************************)
(* Claims about the roles two clients hold of each other.                  *)
(***************************************************************************)

\* The host is in #general and authenticated, and the joiner, authenticated
\* too, has its JOIN on the way to the server.
JoinerAboutToJoin ==
    /\ "#general" \in DOMAIN channels
    /\ "a1" \in channels["#general"]
    /\ "a2" \in DOMAIN clients /\ "a2" \notin channels["#general"]
    /\ clients["a1"].authenticated
    /\ clients["a2"].authenticated
    /\ \E i \in DOMAIN out_tx["a2"] : out_tx["a2"][i].cmd = "JOIN"

\* C38: when a joiner joins a channel in which the host is present and both
\* are authenticated, then with every line delivered the joiner eventually
\* records the host's role as Host.
C38_RolePropagation ==
    JoinerAboutToJoin ~> (get_peer_role(rv_roles["a2"], RvNick("a1")) = "Host")

(***************************************************************************)
(* Claims about the audio path through a room.                             *)
(***************************************************************************)

\* C39: the frame of the speaker's microphone reaches the audio intake of
\* every other node at most once, whatever the roles, the sessions and the
\* relay connections of the room.
C39_AtMostOnce ==
    \A n \in MeshNicks \ {Speaker} : intake[n] <= 1

(***************************************************************************)
(* Claims about the members of the server's channels.                      *)
(***************************************************************************)

====
